---- MODULE Spec2Model ----
(***************************************************************************)
(* Withdrawal simulator of the retirement planner                          *)
(* (src/src/utils/withdrawals.ts) with the parts of the country policies,  *)
(* the penalty calculator and the withdrawal defaults it calls.            *)
(*                                                                         *)
(* Numbers.  Amounts are whole dollars.  The code computes in IEEE doubles;*)
(* here a rate is an integer number of percent (3 stands for 0.03), an age *)
(* that can be fractional (the penalty age 59.5) is counted in tenths of a *)
(* year, an RMD divisor is counted in tenths (265 stands for 26.5), an     *)
(* RRIF percentage in hundredths of a percent, and every quotient is       *)
(* rounded down to a whole dollar.  null is modelled by NULL.              *)
(***************************************************************************)
EXTENDS Integers, Sequences, FiniteSets, TLC

NULL == 0 - 1

Min(a, b) == IF a <= b THEN a ELSE b
Max(a, b) == IF a >= b THEN a ELSE b

\* x * (1 + rate), rate in percent
Grow(x, ratePct) == (x * (100 + ratePct)) \div 100

\* x * Math.pow(1 + rate, n), n >= 0
RECURSIVE Inflate(_, _, _)
Inflate(x, ratePct, n) ==
    IF n <= 0 THEN x ELSE Inflate(Grow(x, ratePct), ratePct, n - 1)

SumSeq(s) ==
    LET RECURSIVE Go(_)
        Go(k) == IF k > Len(s) THEN 0 ELSE s[k] + Go(k + 1)
    IN Go(1)

\* the indices of s, in order, that are in keep
SelectIdx(s, keep) ==
    LET RECURSIVE Go(_)
        Go(k) == IF k > Len(s) THEN <<>>
                 ELSE IF k \in keep THEN <<k>> \o Go(k + 1) ELSE Go(k + 1)
    IN Go(1)

-----------------------------------------------------------------------------
(* Account types and tax treatment: src/src/types/index.ts                 *)

USAccountType == {"traditional_401k", "roth_401k", "traditional_ira",
                  "roth_ira", "taxable", "hsa"}
CAAccountType == {"rrsp", "tfsa", "rrif", "lira", "lif", "fhsa",
                  "non_registered", "employer_rrsp"}

getTaxTreatment(accountType) ==
    CASE accountType \in {"traditional_401k", "traditional_ira"} -> "pretax"
      [] accountType \in {"roth_401k", "roth_ira"} -> "roth"
      [] accountType = "taxable" -> "taxable"
      [] accountType = "hsa" -> "hsa"
      [] accountType \in {"rrsp", "rrif", "lira", "lif", "fhsa",
                          "employer_rrsp"} -> "pretax"
      [] accountType = "tfsa" -> "roth"
      [] accountType = "non_registered" -> "taxable"
      [] OTHER -> "taxable"

isTraditional(type) == type = "traditional_401k" \/ type = "traditional_ira"

-----------------------------------------------------------------------------
(* Minimum-withdrawal tables                                               *)

RMD_START_AGE == 73

\* divisors of RMD_TABLE in tenths, for the ages 73, 74, ..., 120
RMD_DIVISORS ==
    << 265, 255, 246, 237, 229, 220, 211, 202, 194, 185, 177, 168,
       160, 152, 144, 137, 129, 122, 115, 108, 101,  95,  89,  84,
        78,  73,  68,  64,  60,  56,  52,  49,  46,  43,  41,  39,
        37,  35,  34,  33,  31,  30,  29,  28,  27,  25,  23,  20 >>

RMD_TABLE ==
    [k \in 1..Len(RMD_DIVISORS) |->
        [age |-> RMD_START_AGE + k - 1, divisor |-> RMD_DIVISORS[k]]]

\* the divisor in tenths; 0 when there is none
MutantNoDivisorBeyondTable(age) ==
    IF age < RMD_START_AGE THEN 0
    ELSE IF \E k \in DOMAIN RMD_TABLE : RMD_TABLE[k].age = age
         THEN RMD_TABLE[CHOOSE k \in DOMAIN RMD_TABLE :
                            RMD_TABLE[k].age = age].divisor
    ELSE 0

getRMDDivisor(age) ==
    IF age < RMD_START_AGE THEN 0
    ELSE IF \E k \in DOMAIN RMD_TABLE : RMD_TABLE[k].age = age
         THEN RMD_TABLE[CHOOSE k \in DOMAIN RMD_TABLE :
                            RMD_TABLE[k].age = age].divisor
    ELSE IF age > 120 THEN 20
    ELSE 0

\* calculateRMD of utils/withdrawals.ts without a country policy
calculateRMDFallback(age, traditionalBalance) ==
    IF age < RMD_START_AGE THEN 0
    ELSE IF getRMDDivisor(age) <= 0 THEN 0
    ELSE (traditionalBalance * 10) \div getRMDDivisor(age)

\* USConfig.getMinimumWithdrawal: the divisor table from age 73
USgetMinimumWithdrawal(age, balance, accountType) ==
    IF age < RMD_START_AGE THEN 0
    ELSE IF getRMDDivisor(age) <= 0 THEN 0
    ELSE (balance * 10) \div getRMDDivisor(age)

RRIF_START_AGE == 71

\* prescribed RRIF percentages in hundredths of a percent, ages 71 .. 95
RRIF_PERCENTAGES ==
    << 528, 540, 553, 567, 582, 598, 617, 636, 658, 682, 708, 738, 771,
       808, 851, 899, 955, 1021, 1099, 1192, 1306, 1449, 1634, 1879, 2000 >>

\* CAConfig.getMinimumWithdrawal: percentage of the balance from age 71
CAgetMinimumWithdrawal(age, balance, accountType) ==
    IF age < RRIF_START_AGE THEN 0
    ELSE LET k == Min(age - RRIF_START_AGE + 1, Len(RRIF_PERCENTAGES))
         IN (balance * RRIF_PERCENTAGES[k]) \div 10000

-----------------------------------------------------------------------------
(* Country policies: src/src/countries/index.ts (US),                      *)
(* src/src/countries/canada/index.ts (CA).  countryConfig is "US", "CA" or *)
(* "NONE" (the optional argument left out).                                *)

USisTraditionalAccount(accountType) ==
    accountType = "traditional_401k" \/ accountType = "traditional_ira"

CAisTraditionalAccount(accountType) ==
    accountType \in {"rrsp", "rrif", "lira", "lif", "employer_rrsp"}

\* penaltyAge in tenths of a year, penaltyRate in percent
USgetPenaltyInfo(accountType) ==
    [penaltyAge |-> 595, penaltyRate |-> 10,
     appliesToAccountType |->
        (accountType = "traditional_401k" \/ accountType = "traditional_ira")]

CAgetPenaltyInfo(accountType) ==
    [penaltyAge |-> 0, penaltyRate |-> 0, appliesToAccountType |-> FALSE]

\* age in tenths of a year
USMutantPenaltyAtOrBelowAge(amount, accountType, age10) ==
    IF age10 > USgetPenaltyInfo(accountType).penaltyAge
       \/ ~USgetPenaltyInfo(accountType).appliesToAccountType
    THEN 0
    ELSE (amount * USgetPenaltyInfo(accountType).penaltyRate) \div 100

UScalculateEarlyWithdrawalPenalty(amount, accountType, age10) ==
    IF age10 >= USgetPenaltyInfo(accountType).penaltyAge
       \/ ~USgetPenaltyInfo(accountType).appliesToAccountType
    THEN 0
    ELSE (amount * USgetPenaltyInfo(accountType).penaltyRate) \div 100

CAcalculateEarlyWithdrawalPenalty(amount, accountType, age10) == 0

\* A policy object is named by its value: "US" is USConfig, "CA" is CAConfig,
\* "US_RETAGGED" is an object with the methods of USConfig and another code.
methods(config) == IF config = "US_RETAGGED" THEN "US" ELSE config

\* countryConfig.code
code(config) == IF config = "US_RETAGGED" THEN "XX" ELSE config

\* dispatch on the policy object
isTraditionalAccountOf(config, type) ==
    CASE methods(config) = "US" -> USisTraditionalAccount(type)
      [] methods(config) = "CA" -> CAisTraditionalAccount(type)
      [] OTHER -> isTraditional(type)

getPenaltyInfoOf(config, type) ==
    IF methods(config) = "US" THEN USgetPenaltyInfo(type) ELSE CAgetPenaltyInfo(type)

calculateEarlyWithdrawalPenaltyOf(config, amount, type, age10) ==
    IF methods(config) = "US" THEN UScalculateEarlyWithdrawalPenalty(amount, type, age10)
    ELSE CAcalculateEarlyWithdrawalPenalty(amount, type, age10)

getMinimumWithdrawalOf(config, age, balance, type) ==
    IF methods(config) = "US" THEN USgetMinimumWithdrawal(age, balance, type)
    ELSE CAgetMinimumWithdrawal(age, balance, type)

\* calculateRMD of utils/withdrawals.ts
calculateRMD(age, traditionalBalance, accountType, config) ==
    IF config # "NONE"
    THEN getMinimumWithdrawalOf(config, age, traditionalBalance, accountType)
    ELSE calculateRMDFallback(age, traditionalBalance)

-----------------------------------------------------------------------------
(* Withdrawal defaults: src/unnamed/part_001 (utils/withdrawalDefaults)    *)

\* an account of the accounts argument:
\*   [id, type, withdrawalRules |-> [defined, startAge]]
NoRules == [defined |-> FALSE, startAge |-> 0]
StartAt(a) == [defined |-> TRUE, startAge |-> a]

MutantDefaultIsRetirementAge(account, retirementAge, config) == retirementAge

MutantDefaultNotCapped(account, retirementAge, config) ==
    IF getPenaltyInfoOf(config, account.type).appliesToAccountType
    THEN (getPenaltyInfoOf(config, account.type).penaltyAge + 9) \div 10
    ELSE retirementAge

getDefaultWithdrawalAge(account, retirementAge, config) ==
    LET penaltyInfo == getPenaltyInfoOf(config, account.type)
        testAge == IF code(config) = "US" THEN 73 ELSE 71
        rmdAge ==
            IF isTraditionalAccountOf(config, account.type)
               /\ getMinimumWithdrawalOf(config, testAge, 100000, account.type) > 0
            THEN testAge ELSE NULL
        penaltyFreeAge == (penaltyInfo.penaltyAge + 9) \div 10
    IN IF penaltyInfo.appliesToAccountType
       THEN IF rmdAge # NULL THEN Min(penaltyFreeAge, rmdAge) ELSE penaltyFreeAge
       ELSE IF rmdAge # NULL THEN Min(retirementAge, rmdAge) ELSE retirementAge

getMaxWithdrawalAge(account, lifeExpectancy, config) ==
    LET rmdAge == IF code(config) = "US" THEN 73 ELSE 71
    IN IF isTraditionalAccountOf(config, account.type)
          /\ getMinimumWithdrawalOf(config, rmdAge, 100000, account.type) > 0
       THEN rmdAge
       ELSE lifeExpectancy

\* account.withdrawalRules?.startAge ?? (countryConfig ? default : retirementAge)
withdrawalAgeOf(account, retirementAge, config) ==
    IF account.withdrawalRules.defined THEN account.withdrawalRules.startAge
    ELSE IF config # "NONE"
         THEN getDefaultWithdrawalAge(account, retirementAge, config)
         ELSE retirementAge

\* the indices (positions in accountStates, which are the account ids) of the
\* accounts that may be drawn at currentAge
getAvailableAccounts(accts, currentAge, retirementAge, config) ==
    SelectIdx(accts,
              {k \in 1..Len(accts) :
                   currentAge >= withdrawalAgeOf(accts[k], retirementAge, config)})

-----------------------------------------------------------------------------
(* Income: calculateIncomeStreamBenefits (src/src/types/index.ts) and the  *)
(* policies' calculateRetirementBenefits                                   *)

MutantStreamsStartAfterStartAge(streams, age) ==
    LET RECURSIVE Go(_)
        Go(k) ==
            IF k > Len(streams)
            THEN [totalIncome |-> 0,
                  byTaxTreatment |-> [social_security |-> 0, fully_taxable |-> 0,
                                      tax_free |-> 0]]
            ELSE LET stream == streams[k]
                     rest == Go(k + 1)
                     annualAmount == stream.monthlyAmount * 12
                 IN IF age > stream.startAge
                    THEN [totalIncome |-> rest.totalIncome + annualAmount,
                          byTaxTreatment |->
                             [rest.byTaxTreatment
                                EXCEPT ![stream.taxTreatment] = @ + annualAmount]]
                    ELSE rest
    IN Go(1)

MutantTaxFreeCountedAsTaxable(streams, age) ==
    LET RECURSIVE Go(_)
        Go(k) ==
            IF k > Len(streams)
            THEN [totalIncome |-> 0,
                  byTaxTreatment |-> [social_security |-> 0, fully_taxable |-> 0,
                                      tax_free |-> 0]]
            ELSE LET stream == streams[k]
                     rest == Go(k + 1)
                     annualAmount == stream.monthlyAmount * 12
                 IN IF age >= stream.startAge
                    THEN [totalIncome |-> rest.totalIncome + annualAmount,
                          byTaxTreatment |->
                             [rest.byTaxTreatment
                                EXCEPT !.fully_taxable = @ + annualAmount]]
                    ELSE rest
    IN Go(1)

calculateIncomeStreamBenefits(streams, age) ==
    LET RECURSIVE Go(_)
        Go(k) ==
            IF k > Len(streams)
            THEN [totalIncome |-> 0,
                  byTaxTreatment |-> [social_security |-> 0, fully_taxable |-> 0,
                                      tax_free |-> 0]]
            ELSE LET stream == streams[k]
                     rest == Go(k + 1)
                     annualAmount == stream.monthlyAmount * 12
                 IN IF age >= stream.startAge
                    THEN [totalIncome |-> rest.totalIncome + annualAmount,
                          byTaxTreatment |->
                             [rest.byTaxTreatment
                                EXCEPT ![stream.taxTreatment] = @ + annualAmount]]
                    ELSE rest
    IN Go(1)

\* sum of the annualAmount of the benefits the policy returns
UScalculateRetirementBenefits(prof, age) ==
    IF prof.socialSecurityBenefit > 0 /\ age >= prof.socialSecurityStartAge
    THEN prof.socialSecurityBenefit ELSE 0

CAcalculateRetirementBenefits(prof, age) ==
    (IF prof.socialSecurityBenefit > 0 /\ age >= prof.socialSecurityStartAge
     THEN prof.socialSecurityBenefit ELSE 0)
  + (IF prof.secondaryBenefitAmount > 0 /\ age >= prof.secondaryBenefitStartAge
     THEN prof.secondaryBenefitAmount ELSE 0)

\* governmentBenefitIncome of the year (withdrawals.ts lines 125-145)
MutantBenefitsInflatedFromRetirement(config, prof, assume, age) ==
    LET yearsFromNow == age - prof.retirementAge
        benefit == CASE methods(config) = "US" -> UScalculateRetirementBenefits(prof, age)
                     [] methods(config) = "CA" -> CAcalculateRetirementBenefits(prof, age)
                     [] OTHER -> IF age >= prof.socialSecurityStartAge
                                 THEN prof.socialSecurityBenefit ELSE 0
    IN Inflate(benefit, assume.inflationRate, yearsFromNow)

governmentBenefitsAt(config, prof, assume, age) ==
    LET yearsFromNow == age - prof.currentAge
    IN CASE methods(config) = "US" ->
              Inflate(UScalculateRetirementBenefits(prof, age),
                      assume.inflationRate, yearsFromNow)
         [] methods(config) = "CA" ->
              Inflate(CAcalculateRetirementBenefits(prof, age),
                      assume.inflationRate, yearsFromNow)
         [] OTHER ->
              IF prof.socialSecurityBenefit # 0 /\ prof.socialSecurityStartAge # 0
                 /\ age >= prof.socialSecurityStartAge
              THEN Inflate(prof.socialSecurityBenefit, assume.inflationRate,
                           yearsFromNow)
              ELSE 0

STANDARD_DEDUCTION_MFJ == 29200
STANDARD_DEDUCTION_SINGLE == 14600

getStandardDeduction(filingStatus) ==
    IF filingStatus = "married_filing_jointly" THEN STANDARD_DEDUCTION_MFJ
    ELSE STANDARD_DEDUCTION_SINGLE

-----------------------------------------------------------------------------
(* US capital-gains tax.  The brackets are those of constants.ts; the      *)
(* function is that of the US tax module.  Rates are in percent, so a tax  *)
(* (dollars times percent) is counted in cents.                            *)

Infinity == 2 * 1000000000

MutantGainsBracketsSingleCeiling ==
    << [min |-> 0, max |-> 47025, rate |-> 0],
       [min |-> 47025, max |-> 583750, rate |-> 15],
       [min |-> 583750, max |-> Infinity, rate |-> 20] >>

CAPITAL_GAINS_BRACKETS_MFJ ==
    << [min |-> 0, max |-> 94050, rate |-> 0],
       [min |-> 94050, max |-> 583750, rate |-> 15],
       [min |-> 583750, max |-> Infinity, rate |-> 20] >>

CAPITAL_GAINS_BRACKETS_SINGLE ==
    << [min |-> 0, max |-> 47025, rate |-> 0],
       [min |-> 47025, max |-> 518900, rate |-> 15],
       [min |-> 518900, max |-> Infinity, rate |-> 20] >>

getCapitalGainsBrackets(filingStatus) ==
    IF filingStatus = "married_filing_jointly" THEN CAPITAL_GAINS_BRACKETS_MFJ
    ELSE CAPITAL_GAINS_BRACKETS_SINGLE

\* the gains taxed in each bracket, in bracket order: for each bracket
\* max(0, min(gainsRemaining, bracketMax - max(bracketMin, taxable income)))
capitalGainsByBracket(gains, ordinaryIncome, filingStatus) ==
    LET brackets == getCapitalGainsBrackets(filingStatus)
        ordinaryTaxableIncome ==
            Max(0, ordinaryIncome - getStandardDeduction(filingStatus))
        RECURSIVE Go(_, _)
        Go(k, gainsRemaining) ==
            IF k > Len(brackets) THEN <<>>
            ELSE LET taxableAtRate ==
                         Max(0, Min(gainsRemaining,
                                    brackets[k].max
                                      - Max(brackets[k].min, ordinaryTaxableIncome)))
                 IN <<taxableAtRate>> \o Go(k + 1, gainsRemaining - taxableAtRate)
    IN Go(1, gains)

\* in cents
calculateCapitalGainsTax(gains, ordinaryIncome, filingStatus) ==
    LET brackets == getCapitalGainsBrackets(filingStatus)
        amounts == capitalGainsByBracket(gains, ordinaryIncome, filingStatus)
    IN IF gains <= 0 THEN 0
       ELSE SumSeq([k \in 1..Len(brackets) |-> amounts[k] * brackets[k].rate])

-----------------------------------------------------------------------------
(* US federal tax on ordinary income.  The brackets are those of           *)
(* constants.ts; the functions are those of the US tax module.  In cents.  *)

TAX_BRACKETS_MFJ ==
    << [min |-> 0, max |-> 23200, rate |-> 10],
       [min |-> 23200, max |-> 94300, rate |-> 12],
       [min |-> 94300, max |-> 201050, rate |-> 22],
       [min |-> 201050, max |-> 383900, rate |-> 24],
       [min |-> 383900, max |-> 487450, rate |-> 32],
       [min |-> 487450, max |-> 731200, rate |-> 35],
       [min |-> 731200, max |-> Infinity, rate |-> 37] >>

TAX_BRACKETS_SINGLE ==
    << [min |-> 0, max |-> 11600, rate |-> 10],
       [min |-> 11600, max |-> 47150, rate |-> 12],
       [min |-> 47150, max |-> 100525, rate |-> 22],
       [min |-> 100525, max |-> 191950, rate |-> 24],
       [min |-> 191950, max |-> 243725, rate |-> 32],
       [min |-> 243725, max |-> 609350, rate |-> 35],
       [min |-> 609350, max |-> Infinity, rate |-> 37] >>

getTaxBrackets(filingStatus) ==
    IF filingStatus = "married_filing_jointly" THEN TAX_BRACKETS_MFJ
    ELSE TAX_BRACKETS_SINGLE

\* tax on a taxable income: the sum over the brackets of
\* rate * min(max(income - bracketMin, 0), bracketMax - bracketMin)
calculateFederalIncomeTax(taxableIncome, filingStatus) ==
    LET brackets == getTaxBrackets(filingStatus)
    IN IF taxableIncome <= 0 THEN 0
       ELSE SumSeq([k \in 1..Len(brackets) |->
                      brackets[k].rate
                        * Min(Max(taxableIncome - brackets[k].min, 0),
                              brackets[k].max - brackets[k].min)])

\* the standard deduction comes off the ordinary income, the gains stack
\* on what is left
calculateTotalFederalTax(ordinaryIncome, capitalGains, filingStatus) ==
    calculateFederalIncomeTax(
        Max(0, ordinaryIncome - getStandardDeduction(filingStatus)), filingStatus)
      + calculateCapitalGainsTax(capitalGains, ordinaryIncome, filingStatus)

\* withdrawals.ts lines 208-257: the federal tax of a year.  The tables of
\* the Canadian calculator are not part of the program text at hand; its
\* tax is left without a value.
federalTaxOf(config, ordinaryIncome, capitalGains, filingStatus) ==
    CASE methods(config) = "US" ->
            calculateTotalFederalTax(ordinaryIncome, 0, filingStatus)
              + calculateCapitalGainsTax(capitalGains, ordinaryIncome, filingStatus)
      [] methods(config) = "CA" -> NULL
      [] OTHER -> calculateTotalFederalTax(ordinaryIncome, capitalGains, filingStatus)

\* countries/canada/taxes is not part of the program text at hand.  A call of
\* one of its three calculators is kept as the call itself, the function with
\* the arguments it is given: two calls with the same arguments return the
\* same tax whatever the tables are.
CanadaCalculateFederalIncomeTax(taxableIncome) ==
    [calculator |-> "calculateFederalIncomeTax", ordinaryIncome |-> taxableIncome,
     capitalGains |-> 0, regionCode |-> ""]

CanadaCalculateProvincialIncomeTax(taxableIncome, regionCode) ==
    [calculator |-> "calculateProvincialIncomeTax", ordinaryIncome |-> taxableIncome,
     capitalGains |-> 0, regionCode |-> regionCode]

CanadaCalculateTotalTax(ordinaryIncome, capitalGains, regionCode) ==
    [calculator |-> "calculateTotalTax", ordinaryIncome |-> ordinaryIncome,
     capitalGains |-> capitalGains, regionCode |-> regionCode]

\* canada/index.ts lines 128-145: the tax methods of CAConfig
CAcalculateFederalTax(taxableIncome, filingStatus) ==
    CanadaCalculateFederalIncomeTax(taxableIncome)

CAcalculateRegionalTax(taxableIncome, regionCode) ==
    CanadaCalculateProvincialIncomeTax(taxableIncome, regionCode)

CAcalculateCapitalGainsTax(gains, ordinaryIncome, regionCode, filingStatus) ==
    CanadaCalculateTotalTax(0, gains, regionCode)

\* withdrawals.ts lines 223-237 with CAConfig: the calls whose results add up
\* to the federalTax and to the stateTax of the year
CanadianTaxesOfYear(ordinaryIncome, capitalGains, regionCode, filingStatus) ==
    [federalTax |-> << CAcalculateFederalTax(ordinaryIncome, filingStatus),
                       CAcalculateCapitalGainsTax(capitalGains, ordinaryIncome,
                                                  regionCode, filingStatus) >>,
     stateTax |-> << CAcalculateRegionalTax(ordinaryIncome + capitalGains,
                                            regionCode) >>]

\* utils/taxes calculateStateTax: a flat rate on the taxable income, nothing
\* on an income of zero or less; the rate is in percent, the tax in cents
calculateStateTax(taxableIncome, stateTaxRate) ==
    IF taxableIncome <= 0 THEN 0 ELSE taxableIncome * stateTaxRate

\* withdrawals.ts lines 233-257: the regional tax of a year.  A policy tagged
\* 'US' and a call without policy get the flat rate of the profile; any other
\* policy gets what its calculateRegionalTax returns, 0 for the methods of
\* USConfig; the Canadian tax is left without a value.
stateTaxOf(config, ordinaryIncome, capitalGains, prof) ==
    CASE config = "NONE" \/ code(config) = "US" ->
            calculateStateTax(ordinaryIncome + capitalGains
                                - getStandardDeduction(prof.filingStatus),
                              prof.stateTaxRate)
      [] methods(config) = "US" -> 0
      [] OTHER -> NULL

\* line 259: federalTax + stateTax + totalPenalties, in cents
totalTaxOf(federalTax, stateTax, totalPenalties) ==
    IF federalTax = NULL \/ stateTax = NULL THEN NULL
    ELSE federalTax + stateTax + 100 * totalPenalties

-----------------------------------------------------------------------------
(* State of one call of calculateWithdrawals                               *)

VARIABLES
    accounts,             \* argument: the Account list
    profile,              \* argument
    assumptions,          \* argument
    accumulationResult,   \* argument: finalBalances, totalAtRetirement
    countryConfig,        \* argument: "US", "CA" or "NONE"
    incomeStreams,        \* argument
    currentYear,          \* new Date().getFullYear() as read by the call
    pc,                   \* position of the call
    i,                    \* loop counter
    accountStates,        \* AccountState[]: id, type, balance, costBasis
    targetSpending,
    yearlyWithdrawals,
    portfolioDepletionAge,
    accountDepletionAges,
    lifetimeTaxesPaid,    \* in cents; without a value under the Canadian policy
    income,               \* the year's non-portfolio income
    rmdAmount,
    result,               \* WithdrawalResult of the year
    remainingNeed,        \* local of performTaxOptimizedWithdrawal
    penalties,            \* EarlyWithdrawalPenalty[] of the year
    returned,             \* the RetirementResults returned so far, in order
    fnArgs,               \* arguments of a function applied on its own
    fnValue,              \* what it returned
    rawAccounts           \* App: the accounts kept in localStorage

args == <<accounts, profile, assumptions, accumulationResult, countryConfig,
          incomeStreams>>
vars == <<accounts, profile, assumptions, accumulationResult, countryConfig,
          incomeStreams, currentYear, pc, i, accountStates, targetSpending,
          yearlyWithdrawals, portfolioDepletionAge, accountDepletionAges,
          income, rmdAmount, result, remainingNeed, penalties, returned,
          lifetimeTaxesPaid, fnArgs, fnValue, rawAccounts>>

Age == profile.retirementAge + i
retirementYears == profile.lifeExpectancy - profile.retirementAge

\* the working state the withdrawal passes read and write
Working == [accountStates |-> accountStates, result |-> result,
            remainingNeed |-> remainingNeed,
            accountDepletionAges |-> accountDepletionAges]

\* one withdrawal of w from the account at position k, booked under field
\* (the common body of the loops of performTaxOptimizedWithdrawal)
MutantTakeUnbooked(W, k, w, field, age) ==
    LET bal == W.accountStates[k].balance - w
    IN [W EXCEPT
          !.accountStates[k].balance = bal,
          !.result.byAccount[k] = @ + w,
          !.result[field] = @ + w,
          !.result.accountWithdrawals =
              IF w > 0
              THEN Append(@, [accountId |-> k,
                              accountType |-> W.accountStates[k].type,
                              amount |-> w])
              ELSE @,
          !.accountDepletionAges[k] =
              IF bal <= 0 /\ @ = NULL THEN age ELSE @]

Take(W, k, w, field, age) ==
    LET bal == W.accountStates[k].balance - w
    IN [W EXCEPT
          !.accountStates[k].balance = bal,
          !.result.byAccount[k] = @ + w,
          !.result[field] = @ + w,
          !.result.total = @ + w,
          !.result.accountWithdrawals =
              IF w > 0
              THEN Append(@, [accountId |-> k,
                              accountType |-> W.accountStates[k].type,
                              amount |-> w])
              ELSE @,
          !.accountDepletionAges[k] =
              IF bal <= 0 /\ @ = NULL THEN age ELSE @]

\* Math.min(remaining, acc.balance)
MutantClampOffByOne(remaining, balance) == Min(remaining, balance + 1)

Clamp(remaining, balance) == Min(remaining, balance)

\* Step 1 (lines 393-409): RMDs from the available traditional accounts
RECURSIVE TakeRMDs(_, _, _, _)
TakeRMDs(W, idxs, rmdRemaining, age) ==
    IF idxs = <<>> \/ rmdRemaining <= 0 THEN W
    ELSE LET k == Head(idxs)
             w == Clamp(rmdRemaining, W.accountStates[k].balance)
             W1 == [Take(W, k, w, "traditionalWithdrawal", age)
                      EXCEPT !.remainingNeed = Max(0, @ - w)]
         IN TakeRMDs(W1, Tail(idxs), rmdRemaining - w, age)

\* Step 2 (lines 421-439): the loop over additionalRemaining
RECURSIVE FillBracket(_, _, _, _)
FillBracket(W, idxs, additionalRemaining, age) ==
    IF idxs = <<>> \/ additionalRemaining <= 0 THEN W
    ELSE LET k == Head(idxs)
             w == Clamp(additionalRemaining, W.accountStates[k].balance)
             W1 == [Take(W, k, w, "traditionalWithdrawal", age)
                      EXCEPT !.remainingNeed = @ - w]
         IN FillBracket(W1, Tail(idxs), additionalRemaining - w, age)

\* Steps 3, 5, 6 and the first loop of step 7: draw the remaining need
RECURSIVE DrawNeed(_, _, _, _)
DrawNeed(W, idxs, field, age) ==
    IF idxs = <<>> \/ W.remainingNeed <= 0 THEN W
    ELSE LET k == Head(idxs)
             w == Clamp(W.remainingNeed, W.accountStates[k].balance)
             W1 == [Take(W, k, w, field, age) EXCEPT !.remainingNeed = @ - w]
         IN DrawNeed(W1, Tail(idxs), field, age)

\* withdrawal * gainRatio with the ratio taken against balance
GainsOf(w, costBasis, balance) ==
    IF costBasis > 0
    THEN IF balance > 0
         THEN Max(0, (w * (balance - costBasis)) \div balance)
         ELSE 0
    ELSE w \div 2

\* the cost basis after a withdrawal w that leaves balance
ReducedCostBasis(costBasis, balance, w) ==
    IF balance > 0 THEN (costBasis * balance) \div (balance + w) ELSE 0

\* Step 4 (lines 457-484): taxable accounts
RECURSIVE DrawTaxable(_, _, _)
DrawTaxable(W, idxs, age) ==
    IF idxs = <<>> \/ W.remainingNeed <= 0 THEN W
    ELSE LET k == Head(idxs)
             acc == W.accountStates[k]
             w == Clamp(W.remainingNeed, acc.balance)
             gains == GainsOf(w, acc.costBasis, acc.balance)
             W1 == [Take(W, k, w, "taxableWithdrawal", age) EXCEPT
                      !.accountStates[k].costBasis =
                          ReducedCostBasis(acc.costBasis, acc.balance - w, w),
                      !.result.taxableGains = @ + gains,
                      !.remainingNeed = @ - w]
         IN DrawTaxable(W1, Tail(idxs), age)

\* Step 7, second loop (lines 556-589): the other accounts below their
\* access age; the gain ratio is taken after the balance was reduced
RECURSIVE DrawOthers(_, _, _)
DrawOthers(W, idxs, age) ==
    IF idxs = <<>> \/ W.remainingNeed <= 0 THEN W
    ELSE LET k == Head(idxs)
             acc == W.accountStates[k]
             w == Clamp(W.remainingNeed, acc.balance)
             treatment == getTaxTreatment(acc.type)
             W0 == [W EXCEPT
                      !.accountStates[k].balance = @ - w,
                      !.result.byAccount[k] = @ + w]
             W1 == CASE treatment = "roth" ->
                          [W0 EXCEPT !.result.rothWithdrawal = @ + w]
                     [] treatment = "taxable" ->
                          [W0 EXCEPT
                             !.result.taxableWithdrawal = @ + w,
                             !.result.taxableGains =
                                 @ + GainsOf(w, acc.costBasis, acc.balance - w),
                             !.accountStates[k].costBasis =
                                 ReducedCostBasis(acc.costBasis, acc.balance - w, w)]
                     [] treatment = "hsa" ->
                          [W0 EXCEPT !.result.hsaWithdrawal = @ + w]
                     [] OTHER -> W0
             W2 == [W1 EXCEPT
                      !.result.total = @ + w,
                      !.remainingNeed = @ - w,
                      !.result.accountWithdrawals =
                          IF w > 0
                          THEN Append(@, [accountId |-> k, accountType |-> acc.type,
                                          amount |-> w])
                          ELSE @,
                      !.accountDepletionAges[k] =
                          IF acc.balance - w <= 0 /\ @ = NULL THEN age ELSE @]
         IN DrawOthers(W2, Tail(idxs), age)

-----------------------------------------------------------------------------
(* Penalty calculator: src/src/utils/penaltyCalculator.ts                  *)

\* currentAge10 is the age in tenths of a year
RECURSIVE calculatePenalties(_, _, _)
calculatePenalties(withdrawals, currentAge10, config) ==
    IF withdrawals = <<>> THEN <<>>
    ELSE LET withdrawal == Head(withdrawals)
             penaltyInfo == getPenaltyInfoOf(config, withdrawal.accountType)
             penaltyAmount ==
                 calculateEarlyWithdrawalPenaltyOf(config, withdrawal.amount,
                                                   withdrawal.accountType, currentAge10)
             rest == calculatePenalties(Tail(withdrawals), currentAge10, config)
         IN IF penaltyInfo.appliesToAccountType
               /\ currentAge10 < penaltyInfo.penaltyAge
               /\ penaltyAmount > 0
            THEN <<[amount |-> penaltyAmount, accountId |-> withdrawal.accountId]>>
                     \o rest
            ELSE rest

-----------------------------------------------------------------------------
(* The account groups of performTaxOptimizedWithdrawal (lines 370-391)     *)

\* idxs.filter(Test)
FilterIdx(idxs, keep) ==
    LET RECURSIVE Go(_)
        Go(rest) == IF rest = <<>> THEN <<>>
                    ELSE IF Head(rest) \in keep THEN <<Head(rest)>> \o Go(Tail(rest))
                    ELSE Go(Tail(rest))
    IN Go(idxs)

availableAccounts ==
    getAvailableAccounts(accounts, Age, profile.retirementAge, countryConfig)

isTraditionalAccount(type) == isTraditionalAccountOf(countryConfig, type)

traditionalAccounts ==
    FilterIdx(availableAccounts, {k \in 1..Len(accountStates) : isTraditionalAccount(accountStates[k].type)})
MutantRothPassSkipped == <<>>

rothAccounts ==
    FilterIdx(availableAccounts,
              {k \in 1..Len(accountStates) : getTaxTreatment(accountStates[k].type) = "roth"})
taxableAccounts ==
    FilterIdx(availableAccounts,
              {k \in 1..Len(accountStates) : getTaxTreatment(accountStates[k].type) = "taxable"})
hsaAccounts ==
    FilterIdx(availableAccounts,
              {k \in 1..Len(accountStates) : getTaxTreatment(accountStates[k].type) = "hsa"})

\* lines 525-535: the accounts below their access age that hold money
unavailableAccounts ==
    SelectIdx(accountStates,
              {k \in 1..Len(accountStates) :
                   /\ Age < withdrawalAgeOf(accounts[accountStates[k].id],
                                            profile.retirementAge, countryConfig)
                   /\ accountStates[k].balance > 0})

EmptyResult ==
    [total |-> 0, traditionalWithdrawal |-> 0, rothWithdrawal |-> 0,
     taxableWithdrawal |-> 0, taxableGains |-> 0, hsaWithdrawal |-> 0,
     byAccount |-> [k \in 1..Len(accountStates) |-> 0],
     accountWithdrawals |-> <<>>]

Commit(W) ==
    /\ accountStates' = W.accountStates
    /\ result' = W.result
    /\ remainingNeed' = W.remainingNeed
    /\ accountDepletionAges' = W.accountDepletionAges

-----------------------------------------------------------------------------
(* Inputs                                                                  *)

MaxAccounts == 2
MaxYears == 2

\* an account the caller may pass and its balance at retirement
Acct(t, rules, bal) == [type |-> t, withdrawalRules |-> rules, balance |-> bal]

AccountChoices(config) ==
    CASE config = "US" ->
           { Acct("traditional_ira", NoRules, 200000),
             Acct("traditional_401k", StartAt(55), 100000),
             Acct("traditional_ira", StartAt(75), 100000),
             Acct("roth_ira", NoRules, 50000),
             Acct("roth_401k", StartAt(75), 30000),
             Acct("taxable", NoRules, 40000),
             Acct("taxable", NoRules, 0),
             Acct("hsa", NoRules, 20000) }
      [] config = "CA" ->
           { Acct("rrsp", NoRules, 200000),
             Acct("rrif", StartAt(75), 100000),
             Acct("tfsa", NoRules, 50000),
             Acct("non_registered", StartAt(75), 40000),
             Acct("fhsa", NoRules, 20000) }
      [] OTHER ->
           { Acct("traditional_401k", NoRules, 200000),
             Acct("traditional_ira", StartAt(75), 100000),
             Acct("roth_ira", NoRules, 50000),
             Acct("taxable", NoRules, 40000) }

RetirementAges(config) ==
    CASE config = "US" -> {58, 72}
      [] config = "CA" -> {70}
      [] OTHER -> {72}

AssumptionChoices ==
    { [inflationRate |-> 3, safeWithdrawalRate |-> 2, retirementReturnRate |-> 5],
      [inflationRate |-> 0, safeWithdrawalRate |-> 50, retirementReturnRate |-> 0],
      [inflationRate |-> 3, safeWithdrawalRate |-> 100, retirementReturnRate |-> 0 - 100] }

\* filing status, government benefit and income streams of the caller
IncomeChoices ==
    { [filingStatus |-> "single", benefit |-> 0, secondary |-> 0, streams |-> <<>>,
       stateTaxRate |-> 5],
      [filingStatus |-> "married_filing_jointly", benefit |-> 24000,
       secondary |-> 8000, stateTaxRate |-> 0,
       streams |-> << [monthlyAmount |-> 500, startOffset |-> 0,
                       taxTreatment |-> "fully_taxable"],
                      [monthlyAmount |-> 100, startOffset |-> 1,
                       taxTreatment |-> "tax_free"] >>] }

CalendarYears == {2026, 2027}

\* the calendar year of the first call
FirstCalendarYear == CHOOSE y \in CalendarYears : \A z \in CalendarYears : y <= z

\* the arguments of a call
InitArgs ==
    /\ countryConfig \in {"US", "CA", "NONE"}
    /\ \E n \in 0..MaxAccounts :
         \E choice \in [1..n -> AccountChoices(countryConfig)] :
            /\ accounts = [k \in 1..n |->
                             [id |-> k, type |-> choice[k].type,
                              withdrawalRules |-> choice[k].withdrawalRules]]
            /\ accumulationResult =
                 [finalBalances |-> [k \in 1..n |-> choice[k].balance],
                  totalAtRetirement |-> SumSeq([k \in 1..n |-> choice[k].balance])]
    /\ assumptions \in AssumptionChoices
    /\ \E ra \in RetirementAges(countryConfig), n \in 0..MaxYears, inc \in IncomeChoices :
         /\ profile = [currentAge |-> ra - 1, retirementAge |-> ra,
                       lifeExpectancy |-> ra + n,
                       filingStatus |-> inc.filingStatus,
                       socialSecurityBenefit |-> inc.benefit,
                       socialSecurityStartAge |-> ra + 1,
                       secondaryBenefitAmount |-> inc.secondary,
                       secondaryBenefitStartAge |-> ra + 2,
                       stateTaxRate |-> inc.stateTaxRate]
         /\ incomeStreams =
              [k \in 1..Len(inc.streams) |->
                  [monthlyAmount |-> inc.streams[k].monthlyAmount,
                   startAge |-> ra + inc.streams[k].startOffset,
                   taxTreatment |-> inc.streams[k].taxTreatment]]

\* lines 90-100
InitialAccountStates ==
    [k \in 1..Len(accounts) |->
        [id |-> k, type |-> accounts[k].type,
         balance |-> accumulationResult.finalBalances[k],
         costBasis |-> IF getTaxTreatment(accounts[k].type) = "taxable"
                       THEN accumulationResult.finalBalances[k] \div 2
                       ELSE 0]]

\* lines 102-104
MutantTargetKeptFromEarlierCall ==
    IF returned = <<>>
    THEN (accumulationResult.totalAtRetirement * assumptions.safeWithdrawalRate) \div 100
    ELSE targetSpending

InitialTargetSpending ==
    (accumulationResult.totalAtRetirement * assumptions.safeWithdrawalRate) \div 100

NoIncome == [governmentBenefitIncome |-> 0, inflatedStreamIncome |-> 0,
             totalRetirementIncome |-> 0, nonPortfolioTaxableIncome |-> 0]

\* lines 86-113: the locals of a call that starts
InitLocals ==
    /\ currentYear = FirstCalendarYear
    /\ accountStates = InitialAccountStates
    /\ targetSpending = InitialTargetSpending
    /\ yearlyWithdrawals = <<>>
    /\ portfolioDepletionAge = NULL
    /\ accountDepletionAges = [k \in 1..Len(accounts) |-> NULL]
    /\ i = 0
    /\ pc = "loop"
    /\ income = NoIncome
    /\ rmdAmount = 0
    /\ result = [total |-> 0, traditionalWithdrawal |-> 0, rothWithdrawal |-> 0,
                 taxableWithdrawal |-> 0, taxableGains |-> 0, hsaWithdrawal |-> 0,
                 byAccount |-> [k \in 1..Len(accounts) |-> 0],
                 accountWithdrawals |-> <<>>]
    /\ remainingNeed = 0
    /\ penalties = <<>>
    /\ lifetimeTaxesPaid = 0

Init ==
    /\ rawAccounts = <<>>
    /\ returned = <<>>
    /\ fnArgs = <<>>
    /\ fnValue = <<>>
    /\ InitArgs
    /\ InitLocals

-----------------------------------------------------------------------------
(* calculateWithdrawals: the year loop (lines 115-293)                     *)

\* lines 90-100: the working states are objects of their own; a step of the
\* call writes to them and to no argument
MutantFinalBalancesAreTheWorkingState ==
    /\ accumulationResult' =
          [accumulationResult EXCEPT
              !.finalBalances = [k \in 1..Len(accountStates') |->
                                    accountStates'[k].balance]]
    /\ UNCHANGED <<accounts, profile, assumptions, countryConfig, incomeStreams,
                   fnArgs, fnValue, rawAccounts>>

argsUnchanged ==
    UNCHANGED <<accounts, profile, assumptions, accumulationResult, countryConfig,
                incomeStreams, fnArgs, fnValue, rawAccounts>>

\* lines 161-175
MutantMinimumOverAllAccounts ==
    SumSeq([k \in 1..Len(accountStates) |->
              calculateRMD(Age, accountStates[k].balance, accountStates[k].type,
                           countryConfig)])

totalMinimumWithdrawal ==
    SumSeq([k \in 1..Len(accountStates) |->
              IF isTraditionalAccount(accountStates[k].type)
              THEN calculateRMD(Age, accountStates[k].balance, accountStates[k].type,
                                countryConfig)
              ELSE 0])

totalBalance == SumSeq([k \in 1..Len(accountStates) |-> accountStates[k].balance])

\* the condition of the for loop (line 115)
MutantLoopStopsAtDepletion == i <= retirementYears /\ portfolioDepletionAge = NULL

LoopContinues == i <= retirementYears

\* lines 116-181: depletion check, income of the year, minimum withdrawals
BeginYear ==
    /\ pc = "loop"
    /\ LoopContinues
    /\ portfolioDepletionAge' =
         IF totalBalance <= 0 /\ portfolioDepletionAge = NULL
         THEN Age ELSE portfolioDepletionAge
    /\ LET governmentBenefitIncome ==
               governmentBenefitsAt(countryConfig, profile, assumptions, Age)
           streamResult == calculateIncomeStreamBenefits(incomeStreams, Age)
           yearsFromNow == Age - profile.currentAge
           inflated(x) == Inflate(x, assumptions.inflationRate, yearsFromNow)
           inflatedStreamIncome == inflated(streamResult.totalIncome)
       IN income' =
            [governmentBenefitIncome |-> governmentBenefitIncome,
             inflatedStreamIncome |-> inflatedStreamIncome,
             totalRetirementIncome |-> governmentBenefitIncome + inflatedStreamIncome,
             nonPortfolioTaxableIncome |->
                 (governmentBenefitIncome * 85) \div 100
               + (inflated(streamResult.byTaxTreatment.social_security) * 85) \div 100
               + inflated(streamResult.byTaxTreatment.fully_taxable)]
    /\ rmdAmount' = totalMinimumWithdrawal
    /\ pc' = "step1"
    /\ UNCHANGED <<i, accountStates, targetSpending, yearlyWithdrawals, currentYear,
                   accountDepletionAges, result, remainingNeed, penalties, returned,
                   lifetimeTaxesPaid>>
    /\ argsUnchanged

stepUnchanged ==
    /\ UNCHANGED <<i, targetSpending, yearlyWithdrawals, portfolioDepletionAge,
                   income, rmdAmount, penalties, returned, currentYear,
                   lifetimeTaxesPaid>>
    /\ argsUnchanged

\* line 368: what the accounts have to pay after the other income of the year
MutantNeedIgnoresIncome == targetSpending

spendingNeed == Max(0, targetSpending - income.totalRetirementIncome)

\* lines 339-409: a fresh result, the spending need, then the RMDs
Step1RMD ==
    /\ pc = "step1"
    /\ LET W0 == [Working EXCEPT
                    !.result = EmptyResult,
                    !.remainingNeed = spendingNeed]
       IN Commit(TakeRMDs(W0, traditionalAccounts, rmdAmount, Age))
    /\ pc' = "step2"
    /\ stepUnchanged

\* lines 411-439
Step2BracketFill ==
    /\ pc = "step2"
    /\ LET filingStatus == profile.filingStatus
           standardDeduction == getStandardDeduction(filingStatus)
           bracket12Max == IF filingStatus = "married_filing_jointly"
                           THEN 94300 ELSE 47150
           targetOrdinaryIncome == standardDeduction + bracket12Max
           currentOrdinaryIncome ==
               result.traditionalWithdrawal + income.nonPortfolioTaxableIncome
           roomIn12Bracket == Max(0, targetOrdinaryIncome - currentOrdinaryIncome)
           additionalTraditional == Min(roomIn12Bracket, remainingNeed)
       IN Commit(FillBracket(Working, traditionalAccounts, additionalTraditional, Age))
    /\ pc' = "step3"
    /\ stepUnchanged

\* lines 441-455
Step3Roth ==
    /\ pc = "step3"
    /\ Commit(DrawNeed(Working, rothAccounts, "rothWithdrawal", Age))
    /\ pc' = "step4"
    /\ stepUnchanged

\* lines 457-484
Step4Taxable ==
    /\ pc = "step4"
    /\ Commit(DrawTaxable(Working, taxableAccounts, Age))
    /\ pc' = "step5"
    /\ stepUnchanged

\* lines 486-500
Step5HSA ==
    /\ pc = "step5"
    /\ Commit(DrawNeed(Working, hsaAccounts, "hsaWithdrawal", Age))
    /\ pc' = "step6"
    /\ stepUnchanged

\* lines 502-519
Step6Overflow ==
    /\ pc = "step6"
    /\ IF remainingNeed > 0
       THEN Commit(DrawNeed(Working, traditionalAccounts, "traditionalWithdrawal", Age))
       ELSE Commit(Working)
    /\ pc' = "step7"
    /\ stepUnchanged

\* lines 521-592
Step7EarlyAccess ==
    /\ pc = "step7"
    /\ IF remainingNeed > 0
       THEN LET unavailable == unavailableAccounts
                unavailableTraditional ==
                    FilterIdx(unavailable,
                              {k \in 1..Len(accountStates) : isTraditionalAccount(accountStates[k].type)})
                unavailableOthers ==
                    FilterIdx(unavailable,
                              {k \in 1..Len(accountStates) : ~isTraditionalAccount(accountStates[k].type)})
                W1 == DrawNeed(Working, unavailableTraditional,
                               "traditionalWithdrawal", Age)
            IN Commit(DrawOthers(W1, unavailableOthers, Age))
       ELSE Commit(Working)
    /\ pc' = "penalties"
    /\ stepUnchanged

\* lines 203-206: the balance of account k after the year's return
MutantReturnOnEnteringBalance(k) ==
    Grow(accountStates[k].balance + result.byAccount[k],
         assumptions.retirementReturnRate) - result.byAccount[k]

BalanceAfterReturn(k) ==
    Grow(accountStates[k].balance, assumptions.retirementReturnRate)

\* lines 197-206: penalties of the year's withdrawals, then the returns
PenaltiesAndGrowth ==
    /\ pc = "penalties"
    /\ penalties' = IF countryConfig # "NONE"
                    THEN calculatePenalties(result.accountWithdrawals, Age * 10,
                                            countryConfig)
                    ELSE <<>>
    /\ accountStates' =
         [k \in 1..Len(accountStates) |->
            [accountStates[k] EXCEPT !.balance = BalanceAfterReturn(k)]]
    /\ pc' = "record"
    /\ UNCHANGED <<i, targetSpending, yearlyWithdrawals, portfolioDepletionAge,
                   accountDepletionAges, income, rmdAmount, result, remainingNeed,
                   returned, currentYear, lifetimeTaxesPaid>>
    /\ argsUnchanged

totalPenaltiesOf(ps) == SumSeq([k \in 1..Len(ps) |-> ps[k].amount])

\* target spending of the next year (line 292)
MutantNextTargetNetOfIncome(target) ==
    Grow(Max(0, target - income.totalRetirementIncome), assumptions.inflationRate)

NextTargetSpending(target) == Grow(target, assumptions.inflationRate)

\* line 260: lifetimeTaxesPaid += totalTax
MutantLifetimeTaxOfLastYear(lifetime, totalTax) == totalTax

AccumulateTax(lifetime, totalTax) ==
    IF lifetime = NULL \/ totalTax = NULL THEN NULL ELSE lifetime + totalTax

\* lines 208-292: the taxes and the record of the year; the loop goes on
RecordYear ==
    /\ pc = "record"
    /\ LET ordinaryIncome == result.traditionalWithdrawal
                                + income.nonPortfolioTaxableIncome
           capitalGains == result.taxableGains
           federalTax == federalTaxOf(countryConfig, ordinaryIncome, capitalGains,
                                      profile.filingStatus)
           stateTax == stateTaxOf(countryConfig, ordinaryIncome, capitalGains,
                                  profile)
           totalPenalties == totalPenaltiesOf(penalties)
           totalTax == totalTaxOf(federalTax, stateTax, totalPenalties)
           grossIncome == result.total + income.governmentBenefitIncome
                            + income.inflatedStreamIncome
       IN
       /\ lifetimeTaxesPaid' = AccumulateTax(lifetimeTaxesPaid, totalTax)
       /\ yearlyWithdrawals' =
         Append(yearlyWithdrawals,
            [age |-> Age,
             year |-> currentYear + (profile.retirementAge - profile.currentAge) + i,
             withdrawals |-> result.byAccount,
             remainingBalances |->
                 [k \in 1..Len(accountStates) |-> accountStates[k].balance],
             totalWithdrawal |-> result.total,
             governmentBenefitIncome |-> income.governmentBenefitIncome,
             incomeStreamIncome |-> income.inflatedStreamIncome,
             grossIncome |-> grossIncome,
             targetSpending |-> targetSpending,
             rmdAmount |-> rmdAmount,
             totalRemainingBalance |-> totalBalance,
             federalTax |-> federalTax,
             stateTax |-> stateTax,
             totalTax |-> totalTax,
             afterTaxIncome |-> IF totalTax = NULL THEN NULL
                                ELSE 100 * grossIncome - totalTax,
             earlyWithdrawalPenalties |-> penalties,
             totalPenalties |-> totalPenalties])
    /\ targetSpending' = NextTargetSpending(targetSpending)
    /\ i' = i + 1
    /\ pc' = "loop"
    /\ UNCHANGED <<accountStates, portfolioDepletionAge, accountDepletionAges,
                   income, rmdAmount, result, remainingNeed, penalties, returned,
                   currentYear>>
    /\ argsUnchanged

\* lines 295-306
Return ==
    /\ pc = "loop"
    /\ ~LoopContinues
    /\ returned' =
         Append(returned,
           [yearlyWithdrawals |-> yearlyWithdrawals,
            portfolioDepletionAge |-> portfolioDepletionAge,
            sustainableAnnualWithdrawal |->
                (accumulationResult.totalAtRetirement
                   * assumptions.safeWithdrawalRate) \div 100,
            accountDepletionAges |-> accountDepletionAges,
            lifetimeTaxesPaid |-> lifetimeTaxesPaid])
    /\ pc' = "done"
    /\ UNCHANGED <<i, accountStates, targetSpending, yearlyWithdrawals,
                   portfolioDepletionAge, accountDepletionAges, income, rmdAmount,
                   result, remainingNeed, penalties, currentYear,
                   lifetimeTaxesPaid>>
    /\ argsUnchanged

Next ==
    \/ BeginYear
    \/ Step1RMD
    \/ Step2BracketFill
    \/ Step3Roth
    \/ Step4Taxable
    \/ Step5HSA
    \/ Step6Overflow
    \/ Step7EarlyAccess
    \/ PenaltiesAndGrowth
    \/ RecordYear
    \/ Return

Spec == Init /\ [][Next]_vars

-----------------------------------------------------------------------------
(* The same call made a second time: same arguments, the clock read anew   *)

CallAgain ==
    /\ pc = "done"
    /\ Len(returned) = 1
    /\ currentYear' \in CalendarYears
    /\ accountStates' = InitialAccountStates
    /\ targetSpending' = InitialTargetSpending
    /\ yearlyWithdrawals' = <<>>
    /\ portfolioDepletionAge' = NULL
    /\ accountDepletionAges' = [k \in 1..Len(accounts) |-> NULL]
    /\ i' = 0
    /\ pc' = "loop"
    /\ lifetimeTaxesPaid' = 0
    /\ UNCHANGED <<income, rmdAmount, result, remainingNeed, penalties, returned>>
    /\ argsUnchanged

NextTwoCalls == Next \/ CallAgain

SpecTwoCalls == Init /\ [][NextTwoCalls]_vars

(* The same call made a second time with one more income stream, a        *)
(* tax_free one that pays from the retirement age on                       *)

AddedMonthlyAmounts == {100, 2000}

CallWithTaxFreeStream ==
    /\ pc = "done"
    /\ Len(returned) = 1
    /\ \E amount \in AddedMonthlyAmounts :
          incomeStreams' =
              Append(incomeStreams,
                     [monthlyAmount |-> amount, startAge |-> profile.retirementAge,
                      taxTreatment |-> "tax_free"])
    /\ accountStates' = InitialAccountStates
    /\ targetSpending' = InitialTargetSpending
    /\ yearlyWithdrawals' = <<>>
    /\ portfolioDepletionAge' = NULL
    /\ accountDepletionAges' = [k \in 1..Len(accounts) |-> NULL]
    /\ i' = 0
    /\ pc' = "loop"
    /\ lifetimeTaxesPaid' = 0
    /\ UNCHANGED <<income, rmdAmount, result, remainingNeed, penalties, returned,
                   currentYear>>
    /\ UNCHANGED <<accounts, profile, assumptions, accumulationResult, countryConfig,
                   fnArgs, fnValue, rawAccounts>>

NextAddedStream == Next \/ CallWithTaxFreeStream

SpecAddedStream == Init /\ [][NextAddedStream]_vars

(* The same call made a second time with the other filing status in the   *)
(* profile                                                                 *)

CallWithOtherFilingStatus ==
    /\ pc = "done"
    /\ Len(returned) = 1
    /\ profile' = [profile EXCEPT
                     !.filingStatus = IF @ = "single" THEN "married_filing_jointly"
                                      ELSE "single"]
    /\ accountStates' = InitialAccountStates
    /\ targetSpending' = InitialTargetSpending
    /\ yearlyWithdrawals' = <<>>
    /\ portfolioDepletionAge' = NULL
    /\ accountDepletionAges' = [k \in 1..Len(accounts) |-> NULL]
    /\ i' = 0
    /\ pc' = "loop"
    /\ lifetimeTaxesPaid' = 0
    /\ UNCHANGED <<income, rmdAmount, result, remainingNeed, penalties, returned,
                   currentYear>>
    /\ UNCHANGED <<accounts, assumptions, accumulationResult, countryConfig,
                   incomeStreams, fnArgs, fnValue, rawAccounts>>

NextOtherFilingStatus == Next \/ CallWithOtherFilingStatus

SpecOtherFilingStatus == Init /\ [][NextOtherFilingStatus]_vars

(* The same call made a second time with a policy that has the methods of *)
(* USConfig and another code                                               *)

CallWithRetaggedPolicy ==
    /\ pc = "done"
    /\ Len(returned) = 1
    /\ countryConfig = "US"
    /\ countryConfig' = "US_RETAGGED"
    /\ accountStates' = InitialAccountStates
    /\ targetSpending' = InitialTargetSpending
    /\ yearlyWithdrawals' = <<>>
    /\ portfolioDepletionAge' = NULL
    /\ accountDepletionAges' = [k \in 1..Len(accounts) |-> NULL]
    /\ i' = 0
    /\ pc' = "loop"
    /\ lifetimeTaxesPaid' = 0
    /\ UNCHANGED <<income, rmdAmount, result, remainingNeed, penalties, returned,
                   currentYear>>
    /\ UNCHANGED <<accounts, profile, assumptions, accumulationResult,
                   incomeStreams, fnArgs, fnValue, rawAccounts>>

NextRetaggedPolicy == Next \/ CallWithRetaggedPolicy

SpecRetaggedPolicy == Init /\ [][NextRetaggedPolicy]_vars

(* The call with USConfig made a second time without a policy             *)

CallWithoutPolicy ==
    /\ pc = "done"
    /\ Len(returned) = 1
    /\ countryConfig = "US"
    /\ countryConfig' = "NONE"
    /\ accountStates' = InitialAccountStates
    /\ targetSpending' = InitialTargetSpending
    /\ yearlyWithdrawals' = <<>>
    /\ portfolioDepletionAge' = NULL
    /\ accountDepletionAges' = [k \in 1..Len(accounts) |-> NULL]
    /\ i' = 0
    /\ pc' = "loop"
    /\ lifetimeTaxesPaid' = 0
    /\ UNCHANGED <<income, rmdAmount, result, remainingNeed, penalties, returned,
                   currentYear>>
    /\ UNCHANGED <<accounts, profile, assumptions, accumulationResult,
                   incomeStreams, fnArgs, fnValue, rawAccounts>>

NextWithoutPolicy == Next \/ CallWithoutPolicy

SpecWithoutPolicy == Init /\ [][NextWithoutPolicy]_vars

-----------------------------------------------------------------------------
(* calculatePenalties and the policy's calculateEarlyWithdrawalPenalty,    *)
(* applied on their own to a list of withdrawals                           *)

MaxWithdrawals == 2

PenaltyAges10 == {550, 594, 595, 600}

WithdrawalChoices(config) ==
    (IF config = "US"
     THEN {"traditional_401k", "traditional_ira", "roth_ira", "taxable"}
     ELSE {"rrsp", "tfsa"})
       \X {0, 10000, 50000}

\* no call of calculateWithdrawals is in progress
NoCall ==
    /\ accounts = <<>>
    /\ profile = [retirementAge |-> 0, lifeExpectancy |-> 0]
    /\ assumptions = [inflationRate |-> 0]
    /\ accumulationResult = [totalAtRetirement |-> 0]
    /\ incomeStreams = <<>>
    /\ currentYear = 0
    /\ pc = "idle"
    /\ i = 0
    /\ accountStates = <<>>
    /\ targetSpending = 0
    /\ yearlyWithdrawals = <<>>
    /\ portfolioDepletionAge = NULL
    /\ accountDepletionAges = <<>>
    /\ income = NoIncome
    /\ rmdAmount = 0
    /\ result = [total |-> 0]
    /\ remainingNeed = 0
    /\ penalties = <<>>
    /\ lifetimeTaxesPaid = 0
    /\ returned = <<>>
    /\ rawAccounts = <<>>

InitPenalty ==
    /\ countryConfig \in {"US", "CA"}
    /\ NoCall
    /\ \E n \in 0..MaxWithdrawals, age10 \in PenaltyAges10 :
         \E choice \in [1..n -> WithdrawalChoices(countryConfig)] :
            fnArgs = [withdrawals |->
                         [k \in 1..n |-> [accountId |-> k,
                                          accountType |-> choice[k][1],
                                          amount |-> choice[k][2]]],
                      currentAge10 |-> age10,
                      config |-> countryConfig]
    /\ fnValue = <<>>

Applied(fn) == \E r \in 1..Len(fnValue) : fnValue[r].fn = fn

fnUnchanged ==
    UNCHANGED <<accounts, profile, assumptions, accumulationResult, countryConfig,
                incomeStreams, currentYear, pc, i, accountStates, targetSpending,
                yearlyWithdrawals, portfolioDepletionAge, accountDepletionAges,
                income, rmdAmount, result, remainingNeed, penalties, returned,
                lifetimeTaxesPaid, fnArgs, rawAccounts>>

ApplyCalculatePenalties ==
    /\ pc = "idle"
    /\ ~Applied("calculatePenalties")
    /\ fnValue' =
         Append(fnValue,
                [fn |-> "calculatePenalties",
                 value |-> calculatePenalties(fnArgs.withdrawals, fnArgs.currentAge10,
                                              fnArgs.config)])
    /\ fnUnchanged

ApplyCalculateEarlyWithdrawalPenalty ==
    /\ pc = "idle"
    /\ ~Applied("calculateEarlyWithdrawalPenalty")
    /\ fnValue' =
         Append(fnValue,
                [fn |-> "calculateEarlyWithdrawalPenalty",
                 value |-> [k \in 1..Len(fnArgs.withdrawals) |->
                              calculateEarlyWithdrawalPenaltyOf(
                                  fnArgs.config, fnArgs.withdrawals[k].amount,
                                  fnArgs.withdrawals[k].accountType,
                                  fnArgs.currentAge10)]])
    /\ fnUnchanged

NextPenalty == ApplyCalculatePenalties \/ ApplyCalculateEarlyWithdrawalPenalty

SpecPenalty == InitPenalty /\ [][NextPenalty]_vars

-----------------------------------------------------------------------------
(* calculateIncomeStreamBenefits applied on its own                        *)

MaxStreams == 2

StreamChoices == {0, 500, 1000} \X {60, 65} \X {"social_security", "fully_taxable", "tax_free"}

StreamAges == {59, 60, 64, 65, 66}

InitStreams ==
    /\ countryConfig = "NONE"
    /\ NoCall
    /\ \E n \in 0..MaxStreams, age \in StreamAges :
         \E choice \in [1..n -> StreamChoices] :
            fnArgs = [streams |-> [k \in 1..n |-> [monthlyAmount |-> choice[k][1],
                                                   startAge |-> choice[k][2],
                                                   taxTreatment |-> choice[k][3]]],
                      age |-> age]
    /\ fnValue = <<>>

ApplyCalculateIncomeStreamBenefits ==
    /\ pc = "idle"
    /\ ~Applied("calculateIncomeStreamBenefits")
    /\ fnValue' =
         Append(fnValue,
                [fn |-> "calculateIncomeStreamBenefits",
                 value |-> calculateIncomeStreamBenefits(fnArgs.streams, fnArgs.age)])
    /\ fnUnchanged

NextStreams == ApplyCalculateIncomeStreamBenefits

SpecStreams == InitStreams /\ [][NextStreams]_vars

-----------------------------------------------------------------------------
(* getRMDDivisor and the fallback calculateRMD applied on their own        *)

RMDAges == 68..125

RMDBalances == {0, 1, 26500, 1000000}

InitRMD ==
    /\ countryConfig = "NONE"
    /\ NoCall
    /\ \E age \in RMDAges, balance \in RMDBalances :
          fnArgs = [age |-> age, balance |-> balance]
    /\ fnValue = <<>>

ApplyGetRMDDivisor ==
    /\ pc = "idle"
    /\ ~Applied("getRMDDivisor")
    /\ fnValue' = Append(fnValue, [fn |-> "getRMDDivisor",
                                   value |-> getRMDDivisor(fnArgs.age)])
    /\ fnUnchanged

ApplyCalculateRMD ==
    /\ pc = "idle"
    /\ ~Applied("calculateRMD")
    /\ fnValue' = Append(fnValue,
                         [fn |-> "calculateRMD",
                          value |-> calculateRMD(fnArgs.age, fnArgs.balance,
                                                 "traditional_ira", countryConfig)])
    /\ fnUnchanged

NextRMD == ApplyGetRMDDivisor \/ ApplyCalculateRMD

SpecRMD == InitRMD /\ [][NextRMD]_vars

(* getDefaultWithdrawalAge and getMaxWithdrawalAge applied on their own    *)

DefaultsRetirementAges == {50, 58, 60, 65, 71, 72, 73, 75}

DefaultsLifeExpectancies == {55, 60, 70, 73, 80, 90}

InitDefaults ==
    /\ countryConfig \in {"US", "CA"}
    /\ NoCall
    /\ \E type \in (IF countryConfig = "US" THEN USAccountType ELSE CAAccountType),
          ra \in DefaultsRetirementAges, le \in DefaultsLifeExpectancies :
          fnArgs = [account |-> [id |-> 1, type |-> type, withdrawalRules |-> NoRules],
                    retirementAge |-> ra, lifeExpectancy |-> le]
    /\ fnValue = <<>>

ApplyGetDefaultWithdrawalAge ==
    /\ pc = "idle"
    /\ ~Applied("getDefaultWithdrawalAge")
    /\ fnValue' = Append(fnValue,
                         [fn |-> "getDefaultWithdrawalAge",
                          value |-> getDefaultWithdrawalAge(fnArgs.account,
                                                            fnArgs.retirementAge,
                                                            countryConfig)])
    /\ fnUnchanged

ApplyGetMaxWithdrawalAge ==
    /\ pc = "idle"
    /\ ~Applied("getMaxWithdrawalAge")
    /\ fnValue' = Append(fnValue,
                         [fn |-> "getMaxWithdrawalAge",
                          value |-> getMaxWithdrawalAge(fnArgs.account,
                                                        fnArgs.lifeExpectancy,
                                                        countryConfig)])
    /\ fnUnchanged

NextDefaults == ApplyGetDefaultWithdrawalAge \/ ApplyGetMaxWithdrawalAge

SpecDefaults == InitDefaults /\ [][NextDefaults]_vars

-----------------------------------------------------------------------------
(* calculateCapitalGainsTax applied on its own                             *)

GainsChoices == {0, 10000, 23250, 30000, 50000, 100000, 600000}

OrdinaryIncomeChoices == {0, 14600, 29200, 50000, 100000, 120000, 123250, 600000}

InitGains ==
    /\ countryConfig = "US"
    /\ NoCall
    /\ \E gains \in GainsChoices, ordinaryIncome \in OrdinaryIncomeChoices,
          filingStatus \in {"single", "married_filing_jointly"} :
          fnArgs = [gains |-> gains, ordinaryIncome |-> ordinaryIncome,
                    filingStatus |-> filingStatus]
    /\ fnValue = <<>>

ApplyCalculateCapitalGainsTax ==
    /\ pc = "idle"
    /\ ~Applied("calculateCapitalGainsTax")
    /\ fnValue' =
         Append(fnValue,
                [fn |-> "calculateCapitalGainsTax",
                 value |-> calculateCapitalGainsTax(fnArgs.gains, fnArgs.ordinaryIncome,
                                                    fnArgs.filingStatus),
                 byBracket |-> capitalGainsByBracket(fnArgs.gains, fnArgs.ordinaryIncome,
                                                     fnArgs.filingStatus)])
    /\ fnUnchanged

NextGains == ApplyCalculateCapitalGainsTax

SpecGains == InitGains /\ [][NextGains]_vars

-----------------------------------------------------------------------------
(* The tax methods of CAConfig and the tax lines of a year under CAConfig, *)
(* applied on their own                                                    *)

CanadianGainsChoices == {0, 10000, 100000, 300000}

CanadianOrdinaryIncomeChoices == {0, 15705, 60000, 120000, 250000}

Provinces == {"ON", "QC"}

InitCanadianTaxes ==
    /\ countryConfig = "CA"
    /\ NoCall
    /\ \E gains \in CanadianGainsChoices,
          ordinaryIncome \in CanadianOrdinaryIncomeChoices,
          region \in Provinces, filingStatus \in {"single", "married_filing_jointly"} :
          fnArgs = [gains |-> gains, ordinaryIncome |-> ordinaryIncome,
                    region |-> region, filingStatus |-> filingStatus]
    /\ fnValue = <<>>

ApplyCAcalculateCapitalGainsTax ==
    /\ pc = "idle"
    /\ ~Applied("CAConfig.calculateCapitalGainsTax")
    /\ fnValue' =
         Append(fnValue,
                [fn |-> "CAConfig.calculateCapitalGainsTax",
                 value |-> CAcalculateCapitalGainsTax(fnArgs.gains,
                                                      fnArgs.ordinaryIncome,
                                                      fnArgs.region,
                                                      fnArgs.filingStatus)])
    /\ fnUnchanged

ApplyCanadianTaxesOfYear ==
    /\ pc = "idle"
    /\ ~Applied("taxesOfYear")
    /\ fnValue' =
         Append(fnValue,
                [fn |-> "taxesOfYear",
                 value |-> CanadianTaxesOfYear(fnArgs.ordinaryIncome, fnArgs.gains,
                                               fnArgs.region, fnArgs.filingStatus),
                 withoutGains |-> CanadianTaxesOfYear(fnArgs.ordinaryIncome, 0,
                                                      fnArgs.region,
                                                      fnArgs.filingStatus)])
    /\ fnUnchanged

NextCanadianTaxes == ApplyCAcalculateCapitalGainsTax \/ ApplyCanadianTaxesOfYear

SpecCanadianTaxes == InitCanadianTaxes /\ [][NextCanadianTaxes]_vars

-----------------------------------------------------------------------------
(* App.tsx: the accounts in localStorage, the profile, and the accounts    *)
(* the App hands to useRetirementCalc after each render.  An account is    *)
(* identified by its place in the list; startAgeSetByUser is not a field   *)
(* of the program: it records that the start age came from the form input. *)

MaxAppAccounts == 3

AppRetirementAges == {58, 65}

AppFormAges == {55}

AppAccountTypes(country) ==
    IF country = "US" THEN {"traditional_401k", "roth_ira"} ELSE {"rrsp", "tfsa"}

\* App.tsx lines 25-75
createDefaultAccounts(country) ==
    IF country = "CA"
    THEN << [type |-> "employer_rrsp", withdrawalRules |-> NoRules,
             startAgeSetByUser |-> FALSE],
            [type |-> "tfsa", withdrawalRules |-> NoRules,
             startAgeSetByUser |-> FALSE] >>
    ELSE << [type |-> "traditional_401k", withdrawalRules |-> NoRules,
             startAgeSetByUser |-> FALSE],
            [type |-> "roth_ira", withdrawalRules |-> NoRules,
             startAgeSetByUser |-> FALSE] >>

\* App.tsx lines 82-99
normalizeAccount(account, prof) ==
    IF account.withdrawalRules.defined THEN account
    ELSE [account EXCEPT
            !.withdrawalRules =
                StartAt(getDefaultWithdrawalAge(account, prof.retirementAge,
                                                prof.country))]

\* line 117: rawAccounts.map(account => normalizeAccount(account, profile))
normalizeAll(list, prof) ==
    [k \in 1..Len(list) |-> normalizeAccount(list[k], prof)]

\* lines 120-129 and the render that follows: the updated list is saved
\* normalized, and handed on normalized
setAccounts(updated) ==
    /\ rawAccounts' = normalizeAll(updated, profile)
    /\ accounts' = normalizeAll(normalizeAll(updated, profile), profile)

InitApp ==
    /\ \E country \in {"US", "CA"}, ra \in AppRetirementAges :
          /\ countryConfig = country
          /\ profile = [country |-> country, currentAge |-> 50,
                        retirementAge |-> ra, lifeExpectancy |-> 90]
          /\ rawAccounts = createDefaultAccounts(country)
    /\ accounts = normalizeAll(rawAccounts, profile)
    /\ assumptions = [inflationRate |-> 0]
    /\ accumulationResult = [totalAtRetirement |-> 0]
    /\ incomeStreams = <<>>
    /\ currentYear = 0
    /\ pc = "idle"
    /\ i = 0
    /\ accountStates = <<>>
    /\ targetSpending = 0
    /\ yearlyWithdrawals = <<>>
    /\ portfolioDepletionAge = NULL
    /\ accountDepletionAges = <<>>
    /\ income = NoIncome
    /\ rmdAmount = 0
    /\ result = [total |-> 0]
    /\ remainingNeed = 0
    /\ penalties = <<>>
    /\ lifetimeTaxesPaid = 0
    /\ returned = <<>>
    /\ fnArgs = <<>>
    /\ fnValue = <<>>

appUnchanged ==
    UNCHANGED <<assumptions, accumulationResult, countryConfig, incomeStreams,
                currentYear, pc, i, accountStates, targetSpending,
                yearlyWithdrawals, portfolioDepletionAge, accountDepletionAges,
                income, rmdAmount, result, remainingNeed, penalties, returned,
                lifetimeTaxesPaid, fnArgs, fnValue>>

\* AccountForm.tsx lines 32-42, 104-112, 274-280: what the form saves for an
\* account; the start age is in it when the account had one or the input
\* was used
FormSaves(formData) ==
    {formData}
      \cup {[formData EXCEPT !.type = t] : t \in AppAccountTypes(profile.country)}
      \cup {[formData EXCEPT !.withdrawalRules = StartAt(a),
                             !.startAgeSetByUser = TRUE] : a \in AppFormAges}

\* lines 152-154
handleAddAccount ==
    /\ Len(rawAccounts) < MaxAppAccounts
    /\ \E t \in AppAccountTypes(profile.country) :
         \E account \in FormSaves([type |-> t, withdrawalRules |-> NoRules,
                                    startAgeSetByUser |-> FALSE]) :
            setAccounts(Append(rawAccounts, account))
    /\ UNCHANGED profile
    /\ appUnchanged

\* lines 156-160
handleUpdateAccount ==
    /\ \E k \in 1..Len(accounts) :
         \E updatedAccount \in FormSaves(accounts[k]) :
            setAccounts([rawAccounts EXCEPT ![k] = updatedAccount])
    /\ UNCHANGED profile
    /\ appUnchanged

\* lines 162-164
handleDeleteAccount ==
    /\ \E k \in 1..Len(rawAccounts) :
          setAccounts([j \in 1..(Len(rawAccounts) - 1) |->
                          IF j < k THEN rawAccounts[j] ELSE rawAccounts[j + 1]])
    /\ UNCHANGED profile
    /\ appUnchanged

\* ProfileForm: the retirement age is edited; the App renders again
handleProfileChange ==
    /\ \E ra \in AppRetirementAges :
          profile' = [profile EXCEPT !.retirementAge = ra]
    /\ UNCHANGED rawAccounts
    /\ accounts' = normalizeAll(rawAccounts, profile')
    /\ appUnchanged

NextApp ==
    \/ handleAddAccount
    \/ handleUpdateAccount
    \/ handleDeleteAccount
    \/ handleProfileChange

SpecApp == InitApp /\ [][NextApp]_vars

-----------------------------------------------------------------------------
(* Properties of the yearly records                                        *)

Records == 1..Len(yearlyWithdrawals)

\* the balance of account k at the start of the year of record n
EnteringBalance(n, k) ==
    IF n = 1 THEN accumulationResult.finalBalances[k]
    ELSE yearlyWithdrawals[n - 1].remainingBalances[k]

\* the age from which account k may be drawn in the normal passes
AccessAge(k) == withdrawalAgeOf(accounts[k], profile.retirementAge, countryConfig)

\* C1: in every yearly record with a positive required minimum withdrawal
\* the total withdrawn is at least that minimum, whatever start ages the
\* accounts carry.
C1_TotalWithdrawalCoversRMD ==
    \A n \in Records :
        yearlyWithdrawals[n].rmdAmount > 0
            => yearlyWithdrawals[n].totalWithdrawal >= yearlyWithdrawals[n].rmdAmount

\* C2: once the withdrawals of a year are made, the total withdrawn is
\* below the net need only if every account balance is then zero.
C2_ShortfallOnlyWhenExhausted ==
    (pc = "penalties"
       /\ result.total
            < Max(0, targetSpending - income.governmentBenefitIncome
                                    - income.inflatedStreamIncome))
        => \A k \in 1..Len(accountStates) : accountStates[k].balance = 0

\* C3: the returned portfolioDepletionAge is the age of the first record
\* whose total remaining balance is zero or below, and is null exactly
\* when there is no such record.
C3_DepletionAgeIsFirstEmptyRecord ==
    pc = "done" =>
        LET empty == {n \in Records : yearlyWithdrawals[n].totalRemainingBalance <= 0}
        IN  /\ (portfolioDepletionAge = NULL) <=> (empty = {})
            /\ empty # {} =>
                 \E n \in empty :
                    /\ \A m \in empty : n <= m
                    /\ portfolioDepletionAge = yearlyWithdrawals[n].age

\* C4 as written: a year carries a penalty only if some account was
\* drawn below its access age, that is by the early-access fallback.
C4_PenaltyOnlyFromEarlyAccess ==
    \A n \in Records :
        yearlyWithdrawals[n].totalPenalties > 0
            => \E k \in 1..Len(accounts) :
                  /\ yearlyWithdrawals[n].withdrawals[k] > 0
                  /\ yearlyWithdrawals[n].age < AccessAge(k)

\* C4: a year carries a penalty only if, under the US policy and at an age
\* below 59.5, a traditional account was drawn that was either below its
\* access age (early-access fallback) or configured with a start age at or
\* below that age (a normal pass).
C4_PenaltyOnlyBelowPenaltyAge ==
    \A n \in Records :
        yearlyWithdrawals[n].totalPenalties > 0
            => /\ countryConfig = "US"
               /\ 10 * yearlyWithdrawals[n].age < 595
               /\ \E k \in 1..Len(accounts) :
                     /\ yearlyWithdrawals[n].withdrawals[k] > 0
                     /\ accounts[k].type \in {"traditional_401k", "traditional_ira"}
                     /\ \/ yearlyWithdrawals[n].age < AccessAge(k)
                        \/ /\ accounts[k].withdrawalRules.defined
                           /\ accounts[k].withdrawalRules.startAge
                                 <= yearlyWithdrawals[n].age

\* a penalised year in which the fallback drew an account below its access age
C4_Witness ==
    \E n \in Records :
        /\ yearlyWithdrawals[n].totalPenalties > 0
        /\ \E k \in 1..Len(accounts) :
              /\ yearlyWithdrawals[n].withdrawals[k] > 0
              /\ yearlyWithdrawals[n].age < AccessAge(k)
              /\ ~accounts[k].withdrawalRules.defined

\* C5: the total withdrawal of every record is the sum of its withdrawals
\* by account, early-access withdrawals included.
C5_TotalIsSumByAccount ==
    \A n \in Records :
        yearlyWithdrawals[n].totalWithdrawal = SumSeq(yearlyWithdrawals[n].withdrawals)

\* a record with a normal withdrawal and an early-access withdrawal
C5_Witness ==
    \E n \in Records :
        \E k, m \in 1..Len(accounts) :
            /\ yearlyWithdrawals[n].withdrawals[k] > 0
            /\ yearlyWithdrawals[n].age < AccessAge(k)
            /\ yearlyWithdrawals[n].withdrawals[m] > 0
            /\ yearlyWithdrawals[n].age >= AccessAge(m)

\* C6: every remaining balance is at least zero and every withdrawal is at
\* least zero and at most the balance the account had entering the year.
C6_WithdrawalsWithinBalances ==
    \A n \in Records :
        \A k \in 1..Len(accounts) :
            /\ yearlyWithdrawals[n].remainingBalances[k] >= 0
            /\ yearlyWithdrawals[n].withdrawals[k] >= 0
            /\ yearlyWithdrawals[n].withdrawals[k] <= EnteringBalance(n, k)

\* a year whose need exceeded an account: all of it was withdrawn
C6_Witness ==
    \E n \in Records :
        \E k \in 1..Len(accounts) :
            /\ EnteringBalance(n, k) > 0
            /\ yearlyWithdrawals[n].withdrawals[k] = EnteringBalance(n, k)
            /\ yearlyWithdrawals[n].totalWithdrawal
                 < yearlyWithdrawals[n].targetSpending

\* C8: the loop emits one record per age from retirementAge to
\* lifeExpectancy, in order, never stops before that and returns after it;
\* a recorded depletion age does not stop it.
C8_OneRecordPerAge ==
    /\ i <= retirementYears + 1
    /\ Len(yearlyWithdrawals) = i
    /\ \A n \in Records : yearlyWithdrawals[n].age = profile.retirementAge + n - 1
    /\ pc = "done" =>
          Len(yearlyWithdrawals) = profile.lifeExpectancy - profile.retirementAge + 1

\* a returned run whose portfolio was depleted before the last year
C8_Witness ==
    /\ pc = "done"
    /\ portfolioDepletionAge # NULL
    /\ portfolioDepletionAge < profile.lifeExpectancy
    /\ Len(yearlyWithdrawals) = profile.lifeExpectancy - profile.retirementAge + 1

\* C10: the first record's target spending is totalAtRetirement times the
\* safe withdrawal rate, each later one is the previous one grown by the
\* inflation rate, and sustainableAnnualWithdrawal is the first one.
C10_TargetSpendingCompounds ==
    /\ \A n \in Records :
          yearlyWithdrawals[n].targetSpending =
             IF n = 1
             THEN (accumulationResult.totalAtRetirement
                     * assumptions.safeWithdrawalRate) \div 100
             ELSE (yearlyWithdrawals[n - 1].targetSpending
                     * (100 + assumptions.inflationRate)) \div 100
    /\ \A r \in 1..Len(returned) :
          Len(returned[r].yearlyWithdrawals) > 0
             => returned[r].sustainableAnnualWithdrawal
                   = returned[r].yearlyWithdrawals[1].targetSpending

\* three years of a run with inflation, income and withdrawals
C10_Witness ==
    /\ Len(yearlyWithdrawals) >= 3
    /\ assumptions.inflationRate > 0
    /\ yearlyWithdrawals[2].incomeStreamIncome > 0
    /\ yearlyWithdrawals[2].totalWithdrawal > 0
    /\ yearlyWithdrawals[3].targetSpending > yearlyWithdrawals[2].targetSpending

\* C7: a withdrawal is penalised by its amount times the penalty rate
\* exactly when its account type is flagged by the policy and the age is
\* strictly below the penalty age: under the US policy a tenth of the
\* amount for the traditional types below 59.5, nothing at 59.5 or for
\* other types, and nothing at all under the Canadian policy.
C7_PenaltyRule ==
    LET ws == fnArgs.withdrawals
        due(w) == IF /\ fnArgs.config = "US"
                     /\ w.accountType \in {"traditional_401k", "traditional_ira"}
                     /\ fnArgs.currentAge10 < 595
                  THEN w.amount \div 10
                  ELSE 0
        RECURSIVE Due(_)
        Due(k) == IF k > Len(ws) THEN <<>>
                  ELSE IF due(ws[k]) > 0
                       THEN <<[amount |-> due(ws[k]), accountId |-> ws[k].accountId]>>
                              \o Due(k + 1)
                       ELSE Due(k + 1)
    IN \A r \in 1..Len(fnValue) :
          /\ fnValue[r].fn = "calculateEarlyWithdrawalPenalty"
                => \A k \in 1..Len(ws) : fnValue[r].value[k] = due(ws[k])
          /\ fnValue[r].fn = "calculatePenalties"
                => fnValue[r].value = Due(1)

\* both applied just below the penalty age to a flagged and an unflagged
\* withdrawal: one penalty results
C7_Witness ==
    /\ Len(fnValue) = 2
    /\ fnArgs.currentAge10 = 594
    /\ Len(fnArgs.withdrawals) = 2
    /\ \E r \in 1..2 :
          /\ fnValue[r].fn = "calculatePenalties"
          /\ Len(fnValue[r].value) = 1
          /\ fnValue[r].value[1].amount = 5000

C11_StreamsBucketedFromStartAge ==
    \A r \in 1..Len(fnValue) :
        fnValue[r].fn = "calculateIncomeStreamBenefits" =>
            LET ss == fnArgs.streams
                v == fnValue[r].value
                active(t) == {k \in 1..Len(ss) :
                                 fnArgs.age >= ss[k].startAge /\ ss[k].taxTreatment = t}
                bucket(t) == SumSeq([k \in 1..Len(ss) |->
                                       IF k \in active(t) THEN 12 * ss[k].monthlyAmount
                                       ELSE 0])
            IN /\ \A t \in {"social_security", "fully_taxable", "tax_free"} :
                     v.byTaxTreatment[t] = bucket(t)
               /\ v.totalIncome = v.byTaxTreatment.social_security
                                    + v.byTaxTreatment.fully_taxable
                                    + v.byTaxTreatment.tax_free
               /\ (\A k \in 1..Len(ss) : fnArgs.age < ss[k].startAge)
                     => /\ v.totalIncome = 0
                        /\ \A t \in DOMAIN v.byTaxTreatment : v.byTaxTreatment[t] = 0

\* two streams of different treatment, one exactly at its start age and
\* one not yet started
C11_Witness ==
    /\ Applied("calculateIncomeStreamBenefits")
    /\ Len(fnArgs.streams) = 2
    /\ fnArgs.age = 60
    /\ fnArgs.streams[1] = [monthlyAmount |-> 500, startAge |-> 60,
                            taxTreatment |-> "tax_free"]
    /\ fnArgs.streams[2] = [monthlyAmount |-> 1000, startAge |-> 65,
                            taxTreatment |-> "fully_taxable"]
    /\ fnValue[1].value.totalIncome = 6000
    /\ fnValue[1].value.byTaxTreatment.tax_free = 6000

\* C12: the rmdAmount of a year is the sum, over the accounts of a type the
\* policy classifies as traditional, of the minimum withdrawal for the age
\* and that account's own balance entering the year; accounts of other
\* types contribute nothing.
C12_RmdIsSumOverTraditionalAccounts ==
    \A n \in Records :
        LET rec == yearlyWithdrawals[n]
            minimum(k) ==
                IF countryConfig = "NONE"
                THEN calculateRMDFallback(rec.age, EnteringBalance(n, k))
                ELSE getMinimumWithdrawalOf(countryConfig, rec.age,
                                            EnteringBalance(n, k), accounts[k].type)
        IN /\ rec.rmdAmount =
                SumSeq([k \in 1..Len(accounts) |->
                          IF isTraditionalAccountOf(countryConfig, accounts[k].type)
                          THEN minimum(k) ELSE 0])
           /\ rec.rmdAmount > 0 =>
                \E k \in 1..Len(accounts) :
                    /\ getTaxTreatment(accounts[k].type) = "pretax"
                    /\ EnteringBalance(n, k) > 0

\* a year with a minimum withdrawal in a portfolio that also holds money
\* in an account that is not traditional
C12_Witness ==
    \E n \in Records :
        /\ yearlyWithdrawals[n].rmdAmount > 0
        /\ \E k \in 1..Len(accounts) :
              /\ ~isTraditionalAccountOf(countryConfig, accounts[k].type)
              /\ EnteringBalance(n, k) > 0

\* C13: the US minimum-withdrawal lookup gives 0 below age 73, the balance
\* divided by the table's divisor at every age 73..120 (26.5 at 73, 20.2
\* at 80, 12.2 at 90) and by 2.0 above 120; the amount is never negative
\* and never above the balance.
C13_RmdLookup ==
    \A r \in 1..Len(fnValue) :
        LET age == fnArgs.age
            v == fnValue[r].value
            divisor == IF age > 120 THEN 20 ELSE RMD_DIVISORS[age - 72]
        IN /\ fnValue[r].fn = "getRMDDivisor" =>
                /\ age < 73 => v = 0
                /\ age >= 73 => v = divisor /\ v >= 20
                /\ age = 73 => v = 265
                /\ age = 80 => v = 202
                /\ age = 90 => v = 122
                /\ age = 120 => v = 20
           /\ fnValue[r].fn = "calculateRMD" =>
                /\ age < 73 => v = 0
                /\ age >= 73 => v = (10 * fnArgs.balance) \div divisor
                /\ v >= 0
                /\ v <= fnArgs.balance

\* both applied above the last age of the table to a balance that has a
\* minimum withdrawal
C13_Witness ==
    /\ Len(fnValue) = 2
    /\ Applied("getRMDDivisor")
    /\ fnArgs.age = 121
    /\ fnArgs.balance = 1000000
    /\ \E r \in 1..2 : fnValue[r].fn = "calculateRMD" /\ fnValue[r].value = 500000

\* C14: US capital-gains tax stacks the gains G on the ordinary taxable
\* income T = max(0, ordinaryIncome - standardDeduction): each bracket
\* taxes the overlap of [T, T + G] with the bracket at its rate, the
\* overlaps add up to G, the tax is 0 when G = 0 or T + G is at most the 0%
\* ceiling, and is never negative; joint filing with 100000 ordinary income
\* and 50000 gains gives 4012.50.
C14_GainsStackOnOrdinaryIncome ==
    \A r \in 1..Len(fnValue) :
        fnValue[r].fn = "calculateCapitalGainsTax" =>
            LET G == fnArgs.gains
                joint == fnArgs.filingStatus = "married_filing_jointly"
                T == Max(0, fnArgs.ordinaryIncome - (IF joint THEN 29200 ELSE 14600))
                c0 == IF joint THEN 94050 ELSE 47025
                c15 == IF joint THEN 583750 ELSE 518900
                overlap(lo, hi) == Max(0, Min(T + G, hi) - Max(T, lo))
                at0 == overlap(0, c0)
                at15 == overlap(c0, c15)
                at20 == Max(0, T + G - Max(T, c15))
            IN /\ fnValue[r].byBracket = <<at0, at15, at20>>
               /\ at0 + at15 + at20 = G
               /\ fnValue[r].value = 15 * at15 + 20 * at20
               /\ (G = 0 \/ T + G <= c0) => fnValue[r].value = 0
               /\ fnValue[r].value >= 0
               /\ (joint /\ G = 50000 /\ fnArgs.ordinaryIncome = 100000)
                     => fnValue[r].value = 401250

\* the scenario of 50000 gains on 100000 ordinary income, joint filing
C14_Witness ==
    /\ Applied("calculateCapitalGainsTax")
    /\ fnArgs = [gains |-> 50000, ordinaryIncome |-> 100000,
                 filingStatus |-> "married_filing_jointly"]
    /\ fnValue[1].value = 401250
    /\ fnValue[1].byBracket = <<23250, 26750, 0>>

OrdinaryIncomeOfRecord(rec, streams) ==
    LET byTax == calculateIncomeStreamBenefits(streams, rec.age).byTaxTreatment
        inflated(x) == Inflate(x, assumptions.inflationRate,
                               rec.age - profile.currentAge)
    IN SumSeq([k \in 1..Len(accounts) |->
                  IF isTraditionalAccount(accounts[k].type)
                  THEN rec.withdrawals[k] ELSE 0])
         + (rec.governmentBenefitIncome * 85) \div 100
         + (inflated(byTax.social_security) * 85) \div 100
         + inflated(byTax.fully_taxable)

ValueOf(fn) == fnValue[CHOOSE r \in 1..Len(fnValue) : fnValue[r].fn = fn].value

\* C17: getDefaultWithdrawalAge gives 60 for the US traditional types and
\* the retirement age for the types without a penalty, both capped at 73
\* (US) or 71 (CA) for the traditional types that have a minimum
\* withdrawal; getMaxWithdrawalAge gives 73 or 71 for those types and the
\* life expectancy for the others; with retirementAge <= lifeExpectancy the
\* default is never above the maximum.
C17_DefaultWithinMaximum ==
    LET type == fnArgs.account.type
        startAge == IF countryConfig = "US" THEN 73 ELSE 71
        hasMinimum ==
            /\ isTraditionalAccountOf(countryConfig, type)
            /\ getMinimumWithdrawalOf(countryConfig, startAge, 100000, type) > 0
        cap(a) == IF hasMinimum /\ a > startAge THEN startAge ELSE a
        penalised == countryConfig = "US"
                        /\ type \in {"traditional_401k", "traditional_ira"}
    IN /\ Applied("getDefaultWithdrawalAge") =>
            ValueOf("getDefaultWithdrawalAge")
               = IF penalised THEN cap(60) ELSE cap(fnArgs.retirementAge)
       /\ Applied("getMaxWithdrawalAge") =>
            ValueOf("getMaxWithdrawalAge")
               = IF hasMinimum THEN startAge ELSE fnArgs.lifeExpectancy
       /\ (Len(fnValue) = 2 /\ fnArgs.retirementAge <= fnArgs.lifeExpectancy) =>
            ValueOf("getDefaultWithdrawalAge") <= ValueOf("getMaxWithdrawalAge")

\* a Canadian RRSP of a profile that retires at 75: the default is capped
\* at 71, which is also the maximum
C17_Witness ==
    /\ Len(fnValue) = 2
    /\ countryConfig = "CA"
    /\ fnArgs.account.type = "rrsp"
    /\ fnArgs.retirementAge = 75
    /\ fnArgs.lifeExpectancy = 80
    /\ ValueOf("getDefaultWithdrawalAge") = 71
    /\ ValueOf("getMaxWithdrawalAge") = 71

\* the indices of the accounts available at the current age
Available == {availableAccounts[n] : n \in 1..Len(availableAccounts)}

\* the place of an account in the order of the normal passes
SourceRank(k) ==
    LET type == accountStates[k].type
    IN IF isTraditionalAccount(type) THEN 4
       ELSE CASE getTaxTreatment(type) = "roth" -> 1
              [] getTaxTreatment(type) = "taxable" -> 2
              [] getTaxTreatment(type) = "hsa" -> 3
              [] OTHER -> 0

PassRank == CASE pc = "step3" -> 1 [] pc = "step4" -> 2 [] pc = "step5" -> 3
              [] pc = "step6" -> 4 [] OTHER -> 0

C18_PassStep ==
    /\ pc \in {"step3", "step4", "step5", "step6"} =>
          \A k \in 1..Len(accountStates) :
              result'.byAccount[k] > result.byAccount[k] =>
                  /\ k \in Available
                  /\ SourceRank(k) = PassRank
                  /\ \A j \in Available :
                        (0 < SourceRank(j) /\ SourceRank(j) < SourceRank(k))
                            => accountStates'[j].balance = 0
    /\ pc \in {"step1", "step2", "step3", "step4", "step5", "step6", "step7"} =>
          \A k \in 1..Len(accountStates) :
              /\ accountStates'[k].balance <= accountStates[k].balance
              /\ accountStates'[k].balance >= 0

C19_PassStep ==
    /\ pc \in {"step1", "step2", "step3", "step4", "step5", "step6"} =>
          \A k \in 1..Len(accountStates) :
              result'.byAccount[k] > result.byAccount[k] => Age >= AccessAge(k)
    /\ pc = "step7" =>
          \A k \in 1..Len(accountStates) :
              result'.byAccount[k] > result.byAccount[k] =>
                  /\ Age < AccessAge(k)
                  /\ remainingNeed > 0
                  /\ \A j \in 1..Len(accountStates) :
                        Age >= AccessAge(j) => accountStates'[j].balance = 0
                  /\ ~isTraditionalAccount(accountStates[k].type) =>
                        \A j \in 1..Len(accountStates) :
                            (Age < AccessAge(j)
                               /\ isTraditionalAccount(accountStates[j].type))
                                => accountStates'[j].balance = 0

\* C19: an account below its access age is drawn in a year only by the
\* early-access pass, only when need remains and every available account
\* is left with balance 0, and a non-traditional one only when every
\* traditional account below its access age is left with balance 0.
C19_EarlyAccessOnlyWhenExhausted == [][C19_PassStep]_vars

\* the income level that fills the 12% bracket of a US filing status
USBracketFillTarget(filingStatus) ==
    getStandardDeduction(filingStatus) + getTaxBrackets(filingStatus)[2].max

C20_FillStep ==
    pc = "step2" =>
        LET drawn == result'.traditionalWithdrawal - result.traditionalWithdrawal
            room == Max(0, USBracketFillTarget(profile.filingStatus)
                             - (result.traditionalWithdrawal
                                  + income.nonPortfolioTaxableIncome))
            balance == SumSeq([n \in 1..Len(traditionalAccounts) |->
                                  accountStates[traditionalAccounts[n]].balance])
        IN /\ drawn <= remainingNeed
           /\ remainingNeed' = remainingNeed - drawn
           /\ countryConfig # "CA" =>
                 drawn = Min(room, Min(remainingNeed, balance))

\* under the Canadian policy nothing but the bracket-fill level could read
\* the US filing status, and a Canadian level does not: two calls that
\* differ only in it withdraw the same from every account
C20_CanadianFillIgnoresFilingStatus ==
    (Len(returned) = 2 /\ countryConfig = "CA") =>
        \A n \in 1..Len(returned[1].yearlyWithdrawals) :
            returned[2].yearlyWithdrawals[n].withdrawals
                = returned[1].yearlyWithdrawals[n].withdrawals

\* C20: the bracket-fill pass draws min(room, remaining need, available
\* traditional balance) on top of the RMD and never more than the need,
\* with room = max(0, T - (RMD withdrawn + nonPortfolioTaxableIncome)) and T
\* the level that fills the second-lowest bracket of the jurisdiction of
\* the policy in use: standard deduction + 12% ceiling of the filing status
\* under the US policy, a level of the Canadian system under the Canadian
\* policy.
C20_BracketFillOfJurisdiction ==
    [][C20_FillStep]_vars /\ []C20_CanadianFillIgnoresFilingStatus

\* C21: the simulator never branches on the code of the policy: a call with a
\* policy that has the methods of USConfig and another code returns the
\* yearly records of the call with USConfig, for the same other arguments
C21_RecordsIgnoreTheCode ==
    (countryConfig = "US_RETAGGED" /\ Len(returned) = 2)
        => returned[2].yearlyWithdrawals = returned[1].yearlyWithdrawals

\* the calls of the year's taxes that the gains of the year enter: those that
\* are not made the same way in a year without gains
CallsTaxingTheGains(r) ==
    {<<"federalTax", k>> : k \in {j \in 1..Len(r.value.federalTax) :
                                    r.value.federalTax[j] # r.withoutGains.federalTax[j]}}
      \cup
    {<<"stateTax", k>> : k \in {j \in 1..Len(r.value.stateTax) :
                                  r.value.stateTax[j] # r.withoutGains.stateTax[j]}}

\* C22: under the Canadian policy the gains are taxed in the same progressive
\* pass as the ordinary income of the year, so the calculator that prices the
\* gains is given that ordinary income, and the gains of a year enter one
\* calculation of the year's federal and regional taxes, not two.
C22_GainsTaxedOnceWithOrdinaryIncome ==
    \A r \in 1..Len(fnValue) :
        fnArgs.gains > 0 =>
          /\ fnValue[r].fn = "CAConfig.calculateCapitalGainsTax"
                => fnValue[r].value.ordinaryIncome = fnArgs.ordinaryIncome
          /\ fnValue[r].fn = "taxesOfYear"
                => Cardinality(CallsTaxingTheGains(fnValue[r])) = 1

\* the gains of a withdrawal w from a balance b with cost basis c
C23_Gains(w, c, b) ==
    IF c = 0 THEN w \div 2 ELSE Max(0, (w * (b - c)) \div b)

\* one run of the taxable pass or of the early-access fallback
C23_TaxableStep ==
    (pc \in {"step4", "step7"} /\ pc' # pc)
        => LET taxable == {k \in 1..Len(accountStates) :
                              getTaxTreatment(accountStates[k].type) = "taxable"}
               drawn == [k \in 1..Len(accountStates) |->
                            accountStates[k].balance - accountStates'[k].balance]
               gains == [k \in 1..Len(accountStates) |->
                            IF k \in taxable /\ drawn[k] > 0
                            THEN C23_Gains(drawn[k], accountStates[k].costBasis,
                                           accountStates[k].balance)
                            ELSE 0]
           IN /\ result'.taxableGains = result.taxableGains + SumSeq(gains)
              /\ \A k \in taxable :
                    drawn[k] > 0
                        => accountStates'[k].costBasis =
                              (accountStates[k].costBasis * accountStates'[k].balance)
                                 \div accountStates[k].balance

\* C23: a withdrawal w from a taxable account with balance b and cost basis
\* c, in the taxable pass and in the early-access fallback alike, adds
\* w * max(0, 1 - c/b) to the gains of the year (half of w when c is 0) and
\* leaves the cost basis c * (b - w) / b.
C23_GainsAndCostBasis == [][C23_TaxableStep]_vars

\* C24: growth comes after the withdrawal of the year: the balance an account
\* is left with in a record is the balance it entered the year with, less what
\* the record withdrew from it, grown by the return rate
C24_GrowthAfterWithdrawal ==
    \A n \in Records : \A k \in 1..Len(accounts) :
        yearlyWithdrawals[n].remainingBalances[k] =
            Grow(EnteringBalance(n, k) - yearlyWithdrawals[n].withdrawals[k],
                 assumptions.retirementReturnRate)

\* with a return of 0 what an account paid out over the years and what it is
\* left with add up to what it started with
C24_NothingLostWithoutReturn ==
    (assumptions.retirementReturnRate = 0 /\ Records # {})
        => \A k \in 1..Len(accounts) :
              SumSeq([n \in Records |-> yearlyWithdrawals[n].withdrawals[k]])
                + yearlyWithdrawals[Len(yearlyWithdrawals)].remainingBalances[k]
                  = accumulationResult.finalBalances[k]

C24_GrowthAndConservation ==
    C24_GrowthAfterWithdrawal /\ C24_NothingLostWithoutReturn

\* a second year's record of an account drawn in both years with a return
\* other than 0, and a two-year run without return
C24_Witness ==
    /\ Len(yearlyWithdrawals) = 2
    /\ assumptions.retirementReturnRate > 0
    /\ \E k \in 1..Len(accounts) :
          /\ yearlyWithdrawals[1].withdrawals[k] > 0
          /\ yearlyWithdrawals[2].withdrawals[k] > 0
          /\ yearlyWithdrawals[2].remainingBalances[k] > 0

\* the penalties of record rec that were charged to account k
C25_PenaltiesOfAccount(rec, k) ==
    SumSeq([p \in 1..Len(rec.earlyWithdrawalPenalties) |->
               IF rec.earlyWithdrawalPenalties[p].accountId = k
               THEN rec.earlyWithdrawalPenalties[p].amount ELSE 0])

\* the total taxes of the records so far
C25_TaxesOf(records) == SumSeq([n \in 1..Len(records) |-> records[n].totalTax])

C26_SetOnce ==
    \A k \in 1..Len(accountDepletionAges) :
        accountDepletionAges[k] # NULL
            => accountDepletionAges'[k] = accountDepletionAges[k]

\* the depletion ages of a returned result against its records
C26_FirstEmptyAge ==
    pc = "done"
        => LET res == returned[Len(returned)]
               recs == res.yearlyWithdrawals
           IN \A k \in 1..Len(accounts) :
                LET empty == {n \in 1..Len(recs) : recs[n].remainingBalances[k] <= 0}
                IN /\ res.accountDepletionAges[k] = NULL <=> empty = {}
                   /\ empty # {}
                         => res.accountDepletionAges[k]
                              = recs[CHOOSE n \in empty : \A m \in empty : n <= m].age

\* C26: accountDepletionAges[id] is the first simulated age at which the
\* balance of the account is 0 or less: without a value exactly when every
\* record leaves the account a positive balance, never overwritten once set,
\* and set also for an account that no withdrawal pass visits.
C26_AccountDepletionAges == [][C26_SetOnce]_vars /\ []C26_FirstEmptyAge

\* no step of a call, and no start of a second one, changes an argument
C27_Frame ==
    <<accounts, profile, assumptions, incomeStreams, accumulationResult>>'
        = <<accounts, profile, assumptions, incomeStreams, accumulationResult>>

\* a call, the first or the second, starts from the given final balances
C27_StartsFromFinalBalances ==
    (pc = "loop" /\ i = 0)
        => \A k \in 1..Len(accounts) :
              /\ accountStates[k].balance = accumulationResult.finalBalances[k]
              /\ accountStates[k].costBasis =
                    IF getTaxTreatment(accounts[k].type) = "taxable"
                    THEN accumulationResult.finalBalances[k] \div 2 ELSE 0

\* C27: calculateWithdrawals leaves its arguments as they were: the accounts,
\* the profile, the assumptions, the income streams and the final balances
\* of the accumulation; balances and cost bases change in the working states
\* of the call only, so a second call starts from the same balances.
C27_InputsUnchanged == [][C27_Frame]_vars /\ []C27_StartsFromFinalBalances

\* a second call that has returned, having drawn an account down
C27_Witness ==
    /\ pc = "done"
    /\ Len(returned) = 2
    /\ \E k \in 1..Len(accounts) :
          /\ returned[1].yearlyWithdrawals[1].withdrawals[k] > 0
          /\ accountStates[k].balance < accumulationResult.finalBalances[k]

\* the spending need of the year of record rec
C28_Need(rec) ==
    Max(0, rec.targetSpending - rec.governmentBenefitIncome - rec.incomeStreamIncome)

\* the accounts a pass of the year of record n can draw from: those below
\* their access age (early access) and those of a group of the normal passes
C28_Reachable(n) ==
    {k \in 1..Len(accounts) :
        \/ yearlyWithdrawals[n].age < AccessAge(k)
        \/ isTraditionalAccount(accounts[k].type)
        \/ getTaxTreatment(accounts[k].type) \in {"roth", "taxable", "hsa"}}

\* the required minimum the first pass draws: the year's minimum as far as
\* the traditional accounts past their access age hold it
C28_RMDDrawn(n) ==
    Min(yearlyWithdrawals[n].rmdAmount,
        SumSeq([k \in 1..Len(accounts) |->
                   IF isTraditionalAccount(accounts[k].type)
                      /\ yearlyWithdrawals[n].age >= AccessAge(k)
                   THEN EnteringBalance(n, k) ELSE 0]))

\* C28: no year withdraws more than the larger of the spending need and the
\* required minimum; when the accounts the passes can reach hold at least the
\* larger of the need and the minimum drawn, exactly that much is withdrawn.
C28_NeverOverWithdraws ==
    \A n \in Records :
        LET rec == yearlyWithdrawals[n]
            reachable == SumSeq([k \in 1..Len(accounts) |->
                                   IF k \in C28_Reachable(n)
                                   THEN EnteringBalance(n, k) ELSE 0])
        IN /\ rec.totalWithdrawal <= Max(C28_Need(rec), rec.rmdAmount)
           /\ reachable >= Max(C28_Need(rec), C28_RMDDrawn(n))
                 => rec.totalWithdrawal = Max(C28_Need(rec), C28_RMDDrawn(n))

\* a year whose required minimum exceeds its need, and which has other income
C28_Witness ==
    \E n \in Records :
        /\ C28_RMDDrawn(n) > C28_Need(yearlyWithdrawals[n])
        /\ yearlyWithdrawals[n].governmentBenefitIncome > 0
        /\ yearlyWithdrawals[n].totalWithdrawal = C28_RMDDrawn(n)

\* C29: a call without policy falls back to the US logic: for a profile
\* without government benefit it returns the yearly records of the call with
\* USConfig and otherwise the same arguments, also for traditional accounts
\* without withdrawalRules and for retirement ages below 60.
C29_FallbackIsUSPolicy ==
    (countryConfig = "NONE" /\ Len(returned) = 2
       /\ profile.socialSecurityBenefit = 0 /\ profile.secondaryBenefitAmount = 0)
        => returned[2].yearlyWithdrawals = returned[1].yearlyWithdrawals

\* C30: normalizeAccount does nothing to an account it has normalized and
\* nothing to an account with withdrawalRules, and the default it fills in is
\* not frozen: whatever accounts were added, updated and deleted and however
\* the profile was edited, an account whose start age never came from the
\* form input is simulated with the start age getDefaultWithdrawalAge gives
\* for the profile as it is now.
C30_DefaultFollowsTheProfile ==
    /\ \A k \in 1..Len(rawAccounts) :
          /\ normalizeAccount(normalizeAccount(rawAccounts[k], profile), profile)
                = normalizeAccount(rawAccounts[k], profile)
          /\ rawAccounts[k].withdrawalRules.defined
                => normalizeAccount(rawAccounts[k], profile) = rawAccounts[k]
    /\ \A k \in 1..Len(accounts) :
          ~accounts[k].startAgeSetByUser
              => withdrawalAgeOf(accounts[k], profile.retirementAge, countryConfig)
                   = getDefaultWithdrawalAge(accounts[k], profile.retirementAge,
                                             countryConfig)

====
